---- MODULE Spec2Model ----
(***************************************************************************)
(* seredies: a serde Serializer / Deserializer for RESP (the Redis        *)
(* Serialization Protocol).                                                *)
(*                                                                         *)
(* Bytes are one-character strings, byte strings are sequences of them.    *)
(* Typed values, destination types, wire headers and errors are records    *)
(* with a fixed set of fields, so that any two of them can be compared.    *)
(***************************************************************************)
EXTENDS Integers, Sequences, FiniteSets, TLC

VARIABLES
    mode,      \* which entry points the caller drives: "codec", "stream" or "wire"
    pc,        \* the caller's position
    ty,        \* the Rust type of the value being encoded / the destination type
    val,       \* the typed value handed to the Serializer
    ty2,       \* type of the second pipelined value
    val2,      \* the second pipelined value
    out,       \* the Output sink (a Vec<u8>)
    serres,    \* result of the last serialize call
    input,     \* the byte slice the caller holds
    cursor,    \* the `&mut &[u8]` the Deserializer advances
    deres,     \* result of the last cursor decode / from_bytes call
    deres2,    \* result of the decode before it
    wrapres,   \* result of decoding the same input at the wrapped type
    appended,  \* how many bytes arrived since the last failed decode
    leaf,      \* result of the last leaf parser run on the cursor
    numres,    \* result of the last parse_number call
    exactLen,  \* the byte count read_exact was asked for
    sink,      \* the kind of Output behind `out`: "Vec" (Vec<u8>) or "String"
    before,    \* what the sink held when the last serialize call began
    seqser,    \* the SerializeSeq the caller's Serialize impl holds
    emitted,   \* how many serialize_element calls have returned Ok
    dryrun,   \* the sequence of the Command adapter's length pass
    realrun   \* the sequence of the Command adapter's real pass

vars == <<mode, pc, ty, val, ty2, val2, out, serres, input, cursor, deres, deres2, wrapres,
          appended, leaf, numres, exactLen, sink, before, seqser, emitted, dryrun, realrun>>

-----------------------------------------------------------------------------
(* Bytes *)

CR == "\r"
LF == "\n"

DigitBytes == <<"0", "1", "2", "3", "4", "5", "6", "7", "8", "9">>

\* i64, narrowed to the 32-bit two's complement integers TLC computes with
I64_MAX == 2147483647
I64_MIN == -I64_MAX - 1

\* usize -> i64 and i64 -> usize conversions (TryInto)
TryIntoI64(v) == [ok |-> v >= I64_MIN /\ v <= I64_MAX, n |-> v]
\* try_into() to usize fails for a negative value; a clamping cast would not
TryIntoUsize_clamped(v) == [ok |-> TRUE, n |-> IF v < 0 THEN 0 ELSE v]

TryIntoUsize(v) == [ok |-> v >= 0, n |-> v]

SaturatingAdd(a, b) == IF a > I64_MAX - b THEN I64_MAX ELSE a + b
SaturatingMul3(a) == IF a > I64_MAX \div 3 THEN I64_MAX ELSE a * 3

-----------------------------------------------------------------------------
(* de/parse.rs: errors, headers and the leaf parsers *)

NoBytes == << >>

Err(kind, n, b) == [k |-> kind, n |-> n, b |-> b]
NoError == Err("", 0, NoBytes)
UnexpectedEof(n) == Err("UnexpectedEof", n, NoBytes)
MalformedNewline == Err("MalformedNewline", 0, NoBytes)
BadTag(tag) == Err("BadTag", 0, <<tag>>)
NumberError == Err("Number", 0, NoBytes)

Header(tag, payload, n) == [t |-> tag, p |-> payload, n |-> n]
SimpleString(payload) == Header("SimpleString", payload, 0)
ErrorHeader(payload) == Header("Error", payload, 0)
Integer(n) == Header("Integer", NoBytes, n)
BulkString(n) == Header("BulkString", NoBytes, n)
Array(n) == Header("Array", NoBytes, n)
Null == Header("Null", NoBytes, 0)
NoHeader == Header("", NoBytes, 0)

\* ParseResult<'a, O> = Result<(O, &'a [u8]), Error>
ParseOk(h, payload, rest) == [ok |-> TRUE, h |-> h, p |-> payload, e |-> NoError, rest |-> rest]
ParseErr(e) == [ok |-> FALSE, h |-> NoHeader, p |-> NoBytes, e |-> e, rest |-> NoBytes]

Drop(s, n) == SubSeq(s, n + 1, Len(s))
Take(s, n) == SubSeq(s, 1, n)

\* memchr2: 1-based index of the first byte equal to a or b, 0 when there is none
memchr2(a, b, s) ==
    LET hits == {i \in 1..Len(s) : s[i] = a \/ s[i] = b}
    IN IF hits = {} THEN 0 ELSE CHOOSE i \in hits : \A j \in hits : i <= j

read_endline_lone_cr(inp) ==
    IF Len(inp) >= 2 /\ inp[1] = CR /\ inp[2] = LF THEN ParseOk(NoHeader, NoBytes, Drop(inp, 2))
    ELSE IF inp = <<CR>> THEN ParseErr(MalformedNewline)
    ELSE IF inp = << >> THEN ParseErr(UnexpectedEof(2))
    ELSE ParseErr(MalformedNewline)

read_endline(inp) ==
    IF Len(inp) >= 2 /\ inp[1] = CR /\ inp[2] = LF THEN ParseOk(NoHeader, NoBytes, Drop(inp, 2))
    ELSE IF inp = <<CR>> THEN ParseErr(UnexpectedEof(1))
    ELSE IF inp = << >> THEN ParseErr(UnexpectedEof(2))
    ELSE ParseErr(MalformedNewline)

\* try_split_at cuts by position alone, whatever the bytes are
try_split_at_line(inp, idx) ==
    IF idx > Len(inp) THEN [some |-> FALSE, head |-> NoBytes, tail |-> NoBytes]
    ELSE IF memchr2(CR, LF, Take(inp, idx)) # 0 THEN
        [some |-> TRUE, head |-> Take(inp, memchr2(CR, LF, Take(inp, idx)) - 1),
         tail |-> Drop(inp, memchr2(CR, LF, Take(inp, idx)) - 1)]
    ELSE [some |-> TRUE, head |-> Take(inp, idx), tail |-> Drop(inp, idx)]

try_split_at(inp, idx) ==
    IF idx <= Len(inp) THEN [some |-> TRUE, head |-> Take(inp, idx), tail |-> Drop(inp, idx)]
    ELSE [some |-> FALSE, head |-> NoBytes, tail |-> NoBytes]

ascii_to_digit(b) ==
    LET hits == {d \in 0..9 : DigitBytes[d + 1] = b}
    IN IF hits = {} THEN [some |-> FALSE, n |-> 0]
       ELSE [some |-> TRUE, n |-> CHOOSE d \in hits : TRUE]

\* i64::checked_mul(10) and i64::checked_add of a digit in -9..9
checked_mul10_saturating(a) ==
    LET lo == IF I64_MIN % 10 = 0 THEN I64_MIN \div 10 ELSE (I64_MIN \div 10) + 1
        hi == I64_MAX \div 10
    IN IF a < lo THEN [some |-> TRUE, n |-> I64_MIN]
       ELSE IF a > hi THEN [some |-> TRUE, n |-> I64_MAX]
       ELSE [some |-> TRUE, n |-> a * 10]

checked_mul10(a) ==
    LET lo == IF I64_MIN % 10 = 0 THEN I64_MIN \div 10 ELSE (I64_MIN \div 10) + 1
        hi == I64_MAX \div 10
    IN IF a < lo \/ a > hi THEN [some |-> FALSE, n |-> 0] ELSE [some |-> TRUE, n |-> a * 10]

checked_add(a, d) ==
    IF (d > 0 /\ a > I64_MAX - d) \/ (d < 0 /\ a < I64_MIN - d)
    THEN [some |-> FALSE, n |-> 0]
    ELSE [some |-> TRUE, n |-> a + d]

\* the try_fold of parse_number over the digits that follow the sign
RECURSIVE fold_digits(_, _, _)
fold_digits(payload, positive, accum) ==
    IF payload = << >> THEN [some |-> TRUE, n |-> accum]
    ELSE LET digit == ascii_to_digit(Head(payload))
             signed == IF positive THEN digit.n ELSE -digit.n
             mul == checked_mul10(accum)
             add == checked_add(mul.n, signed)
         IN IF ~digit.some THEN [some |-> FALSE, n |-> 0]
            ELSE IF ~mul.some THEN [some |-> FALSE, n |-> 0]
            ELSE IF ~add.some THEN [some |-> FALSE, n |-> 0]
            ELSE fold_digits(Tail(payload), positive, add.n)

parse_number(payload) ==
    IF payload = << >> THEN [ok |-> FALSE, n |-> 0]
    ELSE LET first == Head(payload)
             digits == IF first = "-" \/ first = "+" THEN Tail(payload) ELSE payload
             res == fold_digits(digits, first # "-", 0)
         IN [ok |-> res.some, n |-> res.n]

\* read_header, the dispatch on the tag once the payload and its terminator
\* have been read; `num` is parse_number(payload)
header_of_tag_null_bulk_only(tag, payload, endl, num) ==
    IF ~endl.ok THEN ParseErr(endl.e)
    ELSE IF tag = "+" THEN ParseOk(SimpleString(payload), NoBytes, endl.rest)
    ELSE IF tag = "-" THEN ParseOk(ErrorHeader(payload), NoBytes, endl.rest)
    ELSE IF tag \in {":", "$", "*"} THEN
        IF ~num.ok THEN ParseErr(NumberError)
        ELSE IF tag = ":" THEN ParseOk(Integer(num.n), NoBytes, endl.rest)
        ELSE IF tag = "*" THEN ParseOk(Array(num.n), NoBytes, endl.rest)
        ELSE IF num.n = -1 THEN ParseOk(Null, NoBytes, endl.rest)
        ELSE ParseOk(BulkString(num.n), NoBytes, endl.rest)
    ELSE ParseErr(BadTag(tag))

header_of_tag_any_tag(tag, payload, endl, num) ==
    IF ~endl.ok THEN ParseErr(endl.e)
    ELSE IF tag = "-" THEN ParseOk(ErrorHeader(payload), NoBytes, endl.rest)
    ELSE IF tag \in {":", "$", "*"} THEN
        IF ~num.ok THEN ParseErr(NumberError)
        ELSE IF tag = ":" THEN ParseOk(Integer(num.n), NoBytes, endl.rest)
        ELSE IF num.n = -1 THEN ParseOk(Null, NoBytes, endl.rest)
        ELSE IF tag = "$" THEN ParseOk(BulkString(num.n), NoBytes, endl.rest)
        ELSE ParseOk(Array(num.n), NoBytes, endl.rest)
    ELSE ParseOk(SimpleString(payload), NoBytes, endl.rest)

header_of_tag(tag, payload, endl, num) ==
    IF ~endl.ok THEN ParseErr(endl.e)
    ELSE IF tag = "+" THEN ParseOk(SimpleString(payload), NoBytes, endl.rest)
    ELSE IF tag = "-" THEN ParseOk(ErrorHeader(payload), NoBytes, endl.rest)
    ELSE IF tag \in {":", "$", "*"} THEN
        IF ~num.ok THEN ParseErr(NumberError)
        ELSE IF tag = ":" THEN ParseOk(Integer(num.n), NoBytes, endl.rest)
        ELSE IF num.n = -1 THEN ParseOk(Null, NoBytes, endl.rest)
        ELSE IF tag = "$" THEN ParseOk(BulkString(num.n), NoBytes, endl.rest)
        ELSE ParseOk(Array(num.n), NoBytes, endl.rest)
    ELSE ParseErr(BadTag(tag))

\* read_header, the payload up to the first CR or LF (at 1-based idx of
\* `after`, 0 when there is none) and the terminator that must follow it
header_payload_eof_one(tag, after, idx) ==
    IF idx = 0 THEN ParseErr(UnexpectedEof(1))
    ELSE header_of_tag(tag, Take(after, idx - 1), read_endline(Drop(after, idx - 1)),
                       parse_number(Take(after, idx - 1)))

header_payload(tag, after, idx) ==
    IF idx = 0 THEN ParseErr(UnexpectedEof(2))
    ELSE header_of_tag(tag, Take(after, idx - 1), read_endline(Drop(after, idx - 1)),
                       parse_number(Take(after, idx - 1)))

\* read_header after the fast path: tag byte, payload up to the first CR or
\* LF, the terminator, and only then the dispatch on the tag
read_header_general(inp) ==
    IF inp = << >> THEN ParseErr(UnexpectedEof(3))
    ELSE header_payload(Head(inp), Tail(inp), memchr2(CR, LF, Tail(inp)))

\* a fast path that compared the first three bytes only
read_header_short_compare(inp) ==
    LET fast == try_split_at(inp, 5)
    IN IF fast.some /\ SubSeq(inp, 1, 3) = <<"+", "O", "K">>
            THEN ParseOk(SimpleString(<<"O", "K">>), NoBytes, fast.tail)
       ELSE IF fast.some /\ SubSeq(inp, 1, 3) = <<"$", "-", "1">>
            THEN ParseOk(Null, NoBytes, fast.tail)
       ELSE read_header_general(inp)

read_header(inp) ==
    LET fast == try_split_at(inp, 5)
    IN IF fast.some /\ fast.head = <<"+", "O", "K", CR, LF>>
            THEN ParseOk(SimpleString(<<"O", "K">>), NoBytes, fast.tail)
       ELSE IF fast.some /\ fast.head = <<"$", "-", "1", CR, LF>>
            THEN ParseOk(Null, NoBytes, fast.tail)
       ELSE read_header_general(inp)

read_exact_keeps_terminator(length, inp) ==
    LET split == try_split_at(inp, length)
        endl == read_endline(split.tail)
    IN IF ~split.some THEN ParseErr(UnexpectedEof(SaturatingAdd(length - Len(inp), 2)))
       ELSE IF ~endl.ok THEN ParseErr(endl.e)
       ELSE ParseOk(NoHeader, split.head, split.tail)

read_exact_no_allowance(length, inp) ==
    LET split == try_split_at(inp, length)
        endl == read_endline(split.tail)
    IN IF ~split.some THEN ParseErr(UnexpectedEof(length - Len(inp)))
       ELSE IF ~endl.ok THEN ParseErr(endl.e)
       ELSE ParseOk(NoHeader, split.head, endl.rest)

read_exact(length, inp) ==
    LET split == try_split_at(inp, length)
        endl == read_endline(split.tail)
    IN IF ~split.some THEN ParseErr(UnexpectedEof(SaturatingAdd(length - Len(inp), 2)))
       ELSE IF ~endl.ok THEN ParseErr(endl.e)
       ELSE ParseOk(NoHeader, split.head, endl.rest)

-----------------------------------------------------------------------------
(* Typed values (what a Serialize impl walks, what a Deserialize impl builds) *)

Value(kind, n, b, c) == [k |-> kind, n |-> n, b |-> b, c |-> c]
VBool(x) == Value("bool", IF x THEN 1 ELSE 0, NoBytes, << >>)
VInt(n) == Value("int", n, NoBytes, << >>)
VStr(b) == Value("str", 0, b, << >>)
VBytes(b) == Value("bytes", 0, b, << >>)
VUnit == Value("unit", 0, NoBytes, << >>)
VNone == Value("none", 0, NoBytes, << >>)
VSome(v) == Value("some", 0, NoBytes, <<v>>)
VSeq(vs) == Value("seq", 0, NoBytes, vs)
VTuple(vs) == Value("tuple", 0, NoBytes, vs)
VOk(v) == Value("ok", 0, NoBytes, <<v>>)
VErr(v) == Value("err", 0, NoBytes, <<v>>)
NoValue == Value("", 0, NoBytes, << >>)
\* an integer of a type wider than i64 (u64, i128, u128): `side` is empty
\* when it fits an i64, "+" when it lies above i64::MAX, "-" when below
\* i64::MIN; `n` holds its low 64 bits, which is the value itself when it fits
VWide(n, side) == Value("wide", n, side, << >>)
\* struct S;  and  enum E { V }
VUnitStruct(name) == Value("unit_struct", 0, name, << >>)
VUnitVariant(variant) == Value("unit_variant", 0, variant, << >>)
\* struct N(T);
VNewtype(v) == Value("newtype", 0, NoBytes, <<v>>)
\* a Serialize impl that calls serialize_seq(len) and then hands over the
\* elements `vs`; len = -1 stands for None
VHinted(len, vs) == Value("hinted", len, NoBytes, vs)

-----------------------------------------------------------------------------
(* ser.rs: the Serializer *)

SerOk(output) == [ok |-> TRUE, e |-> NoError, out |-> output]
SerErr(kind, output) == [ok |-> FALSE, e |-> Err(kind, 0, NoBytes), out |-> output]

\* Output::write_str on any sink, Output::write_bytes on a Vec<u8>: append,
\* never fails
write_bytes(output, b) == output \o b

\* a byte that is not valid UTF-8
NonUtf8 == "\\xFF"

\* std::str::from_utf8(b).is_ok()
from_utf8(b) == \A i \in 1..Len(b) : b[i] # NonUtf8

\* <[u8] as Writable>::write_to_output -> Output::write_bytes of the sink:
\* a Vec<u8> takes any bytes, a String only valid UTF-8
write_to_output(output, value) ==
    IF sink = "String" /\ ~from_utf8(value) THEN SerErr("Utf8Encode", output)
    ELSE SerOk(write_bytes(output, value))

\* `value.write_to_output(output)?; output.write_str("\r\n")`: the closing
\* "\r\n" is written once the payload was
write_terminator(written) ==
    IF ~written.ok THEN written
    ELSE SerOk(write_bytes(written.out, <<CR, LF>>))

\* the decimal text `write!(output, "{value}")` produces for an i64
RECURSIVE FormatNat(_)
FormatNat(n) ==
    IF n < 10 THEN <<DigitBytes[n + 1]>>
    ELSE FormatNat(n \div 10) \o <<DigitBytes[(n % 10) + 1]>>

FormatI64(v) ==
    IF v >= 0 THEN FormatNat(v)
    ELSE LET r == v % 10
             last == IF r = 0 THEN 0 ELSE 10 - r
             quot == IF r = 0 THEN v \div 10 ELSE (v \div 10) + 1
         IN <<"-">> \o (IF quot = 0 THEN << >> ELSE FormatNat(-quot)) \o <<DigitBytes[last + 1]>>

serialize_header(output, prefix, value) ==
    LET conv == TryIntoI64(value)
    IN IF ~conv.ok THEN SerErr("NumberOutOfRange", output)
       ELSE SerOk(write_bytes(output, <<prefix>> \o FormatI64(conv.n) \o <<CR, LF>>))

serialize_number(output, value) == serialize_header(output, ":", value)

\* an `as i64` cast would keep the low 64 bits of a number that does not fit
serialize_wide_wrapping(output, v) == serialize_number(output, v.n)

\* serialize_u64 / serialize_i128 / serialize_u128 -> serialize_number ->
\* serialize_header: `value.try_into().map_err(|_| NumberOutOfRange)?`
\* comes before anything is written
serialize_wide(output, v) ==
    IF v.b # NoBytes THEN SerErr("NumberOutOfRange", output)
    ELSE serialize_number(output, v.n)

serialize_array_header(output, len) == serialize_header(output, "*", len)

serialize_bulk_string_no_terminator(output, value) ==
    LET hdr == serialize_header(output, "$", Len(value))
    IN IF ~hdr.ok THEN hdr
       ELSE write_to_output(hdr.out, value)

serialize_bulk_string(output, value) ==
    LET hdr == serialize_header(output, "$", Len(value))
    IN IF ~hdr.ok THEN hdr
       ELSE write_terminator(write_to_output(hdr.out, value))

\* Writable::safe
safe(value) == memchr2(CR, LF, value) = 0

\* an error line written without looking for CR or LF in the message
serialize_error_unchecked(dest, value) ==
    write_terminator(write_to_output(write_bytes(dest, <<"-">>), value))

serialize_error(dest, value) ==
    IF safe(value)
    THEN write_terminator(write_to_output(write_bytes(dest, <<"-">>), value))
    ELSE SerErr("BadSimpleString", dest)

\* UnitBehavior::unit_payload
unit_payload(unit) ==
    IF unit = "ResultOkUnit" THEN <<"+", "O", "K", CR, LF>> ELSE <<"$", "-", "1", CR, LF>>

serialize_none(output) == SerOk(write_bytes(output, <<"$", "-", "1", CR, LF>>))

serialize_unit(output, unit) == SerOk(write_bytes(output, unit_payload(unit)))

\* a serializer that wrote the name of a unit struct, as it does for a variant
serialize_unit_struct_named(output, unit, name) == serialize_bulk_string(output, name)

\* serialize_unit_struct(_name): self.serialize_unit()
serialize_unit_struct(output, unit, name) == serialize_unit(output, unit)

\* SerializeSeq { remaining, output }
SeqState(remaining, output) == [remaining |-> remaining, out |-> output]

\* Serializer::serialize_seq / serialize_tuple: the array header, then a
\* SerializeSeq that expects `len` elements
serialize_tuple(output, len) ==
    LET hdr == serialize_array_header(output, len)
    IN [ok |-> hdr.ok, e |-> hdr.e, seq |-> SeqState(len, hdr.out)]

\* a serialize_seq that began the array header before it looked at the length
serialize_seq_header_first(output, len) ==
    IF len < 0 THEN [ok |-> FALSE, e |-> Err("UnknownSeqLength", 0, NoBytes),
                     seq |-> SeqState(0, write_bytes(output, <<"*">>))]
    ELSE serialize_tuple(output, len)

\* (len = -1 stands for a `None` length)
serialize_seq(output, len) ==
    IF len < 0 THEN [ok |-> FALSE, e |-> Err("UnknownSeqLength", 0, NoBytes), seq |-> SeqState(0, output)]
    ELSE serialize_tuple(output, len)

\* an Ok arm that handed its own mode on would write Ok(()) as a null
ok_payload_mode_inherited(unit) == unit

\* the mode the payload of a Result variant is serialized in
ok_payload_mode(unit) == "ResultOkUnit"

\* an end() that did not look at the counter
seq_end_unchecked(seq) == SerOk(seq.out)

\* SerializeSeq::end
seq_end(seq) ==
    IF seq.remaining = 0 THEN SerOk(seq.out) ELSE SerErr("BadSeqLength", seq.out)

\* self.remaining.checked_sub(1): -1 stands for None
checked_sub1(remaining) == IF remaining = 0 THEN -1 ELSE remaining - 1

\* value.serialize(serializer): `ser` is "NullUnit" or "ResultOkUnit" for a
\* BaseSerializer with that UnitBehavior, "ResultError" for SerializeResultError
RECURSIVE Serialize(_, _, _)
RECURSIVE SerializeElements(_, _, _)
RECURSIVE serialize_element(_, _, _, _)

\* SerializeSeq::serialize_element, after the element `el` was serialized
\* into the sequence's output
serialize_element(vs, i, seq, el) ==
    IF ~el.ok THEN el
    ELSE SerializeElements(vs, i + 1, SeqState(seq.remaining - 1, el.out))

\* SerializeSeq::serialize_element for each element in turn, then end()
SerializeElements(vs, i, seq) ==
    IF i > Len(vs) THEN seq_end(seq)
    ELSE IF checked_sub1(seq.remaining) < 0 THEN SerErr("BadSeqLength", seq.out)
    ELSE serialize_element(vs, i, seq, Serialize(vs[i], "NullUnit", seq.out))

\* Serialize for Vec<T> / tuples: the elements, once serialize_seq /
\* serialize_tuple returned `start`
collect_seq(vs, start) ==
    IF ~start.ok THEN [ok |-> FALSE, e |-> start.e, out |-> start.seq.out]
    ELSE SerializeElements(vs, 1, start.seq)

Serialize(v, ser, output) ==
    IF ser = "ResultError" THEN
        IF v.k \in {"str", "bytes"} THEN serialize_error(output, v.b)
        ELSE IF v.k \in {"unit_struct", "unit_variant"} THEN serialize_error(output, v.b)
        ELSE IF v.k = "newtype" THEN Serialize(v.c[1], ser, output)
        ELSE SerErr("InvalidErrorPayload", output)
    ELSE CASE v.k = "bool" -> serialize_number(output, v.n)
           [] v.k = "int" -> serialize_number(output, v.n)
           [] v.k = "wide" -> serialize_wide(output, v)
           [] v.k \in {"str", "bytes"} -> serialize_bulk_string(output, v.b)
           [] v.k = "none" -> serialize_none(output)
           [] v.k = "some" -> Serialize(v.c[1], ser, output)
           [] v.k = "unit" -> serialize_unit(output, ser)
           [] v.k = "unit_struct" -> serialize_unit_struct(output, ser, v.b)
           [] v.k = "unit_variant" -> serialize_bulk_string(output, v.b)
           [] v.k = "newtype" -> Serialize(v.c[1], ser, output)
           [] v.k = "ok" -> Serialize(v.c[1], ok_payload_mode(ser), output)
           [] v.k = "err" -> Serialize(v.c[1], "ResultError", output)
           [] v.k = "seq" -> collect_seq(v.c, serialize_seq(output, Len(v.c)))
           [] v.k = "tuple" -> collect_seq(v.c, serialize_tuple(output, Len(v.c)))
           [] v.k = "hinted" -> collect_seq(v.c, serialize_seq(output, v.n))
           [] OTHER -> SerErr("UnsupportedType", output)

\* Serializer::new(&mut out) and data.serialize(serializer)
to_output(v, output) == Serialize(v, "NullUnit", output)

-----------------------------------------------------------------------------
(* components/command.rs, components/command/length.rs: the Command adapter *)

\* the values a command is made of, besides those above
VStruct(name, fields) == Value("struct", 0, name, fields)
VField(key, v) == Value("field", 0, key, <<v>>)
VTupleStruct(name, vs) == Value("tuple_struct", 0, name, vs)
VNewtypeVariant(variant, v) == Value("newtype_variant", 0, variant, <<v>>)
\* a map, as its keys and values in turn
VMap(kvs) == Value("map", 0, NoBytes, kvs)

\* RedisStringAdapter: the text a RedisString of the value hands to
\* serialize_str / serialize_bytes of the serializer behind it
RECURSIVE RedisStringAdapter(_)
RedisStringAdapter(v) ==
    CASE v.k = "int" -> [ok |-> TRUE, text |-> FormatI64(v.n)]
      [] v.k \in {"str", "bytes", "unit_struct", "unit_variant"} -> [ok |-> TRUE, text |-> v.b]
      [] v.k = "newtype" -> RedisStringAdapter(v.c[1])
      [] OTHER -> [ok |-> FALSE, text |-> NoBytes]

\* the SerializeSeq a command is written into: the Accumulator of the
\* length pass (`length`) or the SerializeSeq of the Serializer (`remaining`,
\* `out`); `items` lists the elements it was handed
Sequence(pass, ok, e, length, remaining, output) ==
    [pass |-> pass, ok |-> ok, e |-> e, length |-> length, remaining |-> remaining,
     out |-> output, items |-> << >>]

Failed(sq, kind) == [sq EXCEPT !.ok = FALSE, !.e = Err(kind, 0, NoBytes)]

\* an Accumulator that never added anything
Accumulator_add_nothing(sq, count) == sq

\* Accumulator::serialize_element: self.length.checked_add(count)
Accumulator_add(sq, count) ==
    IF sq.length > I64_MAX - count THEN Failed(sq, "Overflow")
    ELSE [sq EXCEPT !.length = @ + count]

\* the sequence once `text` was taken as an element
Taken(sq, text) == IF sq.ok THEN [sq EXCEPT !.items = Append(@, text)] ELSE sq

\* SerializeSeq::serialize_element of the Serializer for a RedisString, once
\* the counter went down and the bulk string was written with result `w`
SerializeSeq_written(sq, remain, text, w) ==
    IF ~w.ok THEN [sq EXCEPT !.ok = FALSE, !.e = w.e, !.remaining = remain, !.out = w.out]
    ELSE Taken([sq EXCEPT !.remaining = remain, !.out = w.out], text)

\* sequence.serialize_element(RedisString::new_ref(value)), where `rs` is
\* what the RedisStringAdapter makes of the value
sequence_serialize_element(sq, rs) ==
    IF ~sq.ok THEN sq
    ELSE IF sq.pass = "length" THEN
        IF ~rs.ok THEN Failed(sq, "Custom") ELSE Taken(Accumulator_add(sq, 1), rs.text)
    ELSE IF checked_sub1(sq.remaining) < 0 THEN Failed(sq, "BadSeqLength")
    ELSE IF ~rs.ok THEN Failed([sq EXCEPT !.remaining = @ - 1], "Custom")
    ELSE SerializeSeq_written(sq, checked_sub1(sq.remaining), rs.text,
                              serialize_bulk_string(sq.out, rs.text))

\* the element for a name (a field key, a struct or variant name)
name_element(sq, name) == sequence_serialize_element(sq, [ok |-> TRUE, text |-> name])

\* VariadicParameter: every item of a list, key and value of a map, key and
\* value of a nested struct's fields go to the sequence as RedisStrings
RECURSIVE VariadicParameter(_, _, _)
VariadicParameter(sq, vs, i) ==
    IF i > Len(vs) \/ ~sq.ok THEN sq
    ELSE IF vs[i].k = "field" THEN
        VariadicParameter(
            sequence_serialize_element(name_element(sq, vs[i].b),
                                       RedisStringAdapter(vs[i].c[1])), vs, i + 1)
    ELSE VariadicParameter(sequence_serialize_element(sq, RedisStringAdapter(vs[i])), vs, i + 1)

\* OptionalParameterSerializer: the value of a present option; `name` is the
\* field's key, empty in a tuple struct
OptionalParameterSerializer(sq, name, v) ==
    CASE v.k \in {"int", "str", "bytes", "some"} ->
            IF name = NoBytes THEN Failed(sq, "Custom")
            ELSE sequence_serialize_element(name_element(sq, name), RedisStringAdapter(v))
      [] v.k \in {"none", "unit"} ->
            IF name = NoBytes THEN Failed(sq, "Custom") ELSE name_element(sq, name)
      [] v.k \in {"unit_struct", "unit_variant"} -> name_element(sq, v.b)
      [] v.k = "newtype_variant" ->
            sequence_serialize_element(name_element(sq, v.b), RedisStringAdapter(v.c[1]))
      [] OTHER -> Failed(sq, "Custom")

\* CommandParameterSerializer: one argument of the command
RECURSIVE CommandParameterSerializer(_, _, _)
CommandParameterSerializer(sq, name, v) ==
    CASE v.k = "bool" ->
            IF name = NoBytes THEN Failed(sq, "Custom")
            ELSE IF v.n = 1 THEN name_element(sq, name)
            ELSE sq
      [] v.k \in {"int", "str", "bytes"} -> sequence_serialize_element(sq, RedisStringAdapter(v))
      [] v.k = "none" -> sq
      [] v.k = "some" -> OptionalParameterSerializer(sq, name, v.c[1])
      [] v.k = "unit" ->
            IF name = NoBytes THEN Failed(sq, "Custom") ELSE name_element(sq, name)
      [] v.k \in {"unit_struct", "unit_variant"} -> name_element(sq, v.b)
      [] v.k = "newtype" -> CommandParameterSerializer(sq, name, v.c[1])
      [] v.k = "newtype_variant" ->
            sequence_serialize_element(name_element(sq, v.b), RedisStringAdapter(v.c[1]))
      [] v.k \in {"seq", "tuple", "map", "struct"} -> VariadicParameter(sq, v.c, 1)
      [] OTHER -> Failed(sq, "Custom")

\* CommandSequencer: serialize_field(key, value) for the fields of a struct,
\* serialize_element(value) for those of a tuple struct
RECURSIVE CommandSequencer(_, _, _)
CommandSequencer(sq, fs, i) ==
    IF i > Len(fs) \/ ~sq.ok THEN sq
    ELSE IF fs[i].k = "field" THEN
        CommandSequencer(CommandParameterSerializer(sq, fs[i].b, fs[i].c[1]), fs, i + 1)
    ELSE CommandSequencer(CommandParameterSerializer(sq, NoBytes, fs[i]), fs, i + 1)

\* serializer.serialize_seq(self.length): Accumulator::new() in the length
\* pass, the array header and a SerializeSeq in the real pass
sequence_begin(pass, length, output) ==
    IF pass = "length" THEN Sequence(pass, TRUE, NoError, 0, 0, output)
    ELSE Sequence(pass, serialize_seq(output, length).ok, serialize_seq(output, length).e,
                  0, serialize_seq(output, length).seq.remaining,
                  serialize_seq(output, length).seq.out)

\* sequence.end(): the Accumulator returns its length, the SerializeSeq
\* checks its counter
sequence_end(sq) ==
    IF ~sq.ok \/ sq.pass = "length" THEN sq
    ELSE IF seq_end(SeqState(sq.remaining, sq.out)).ok THEN sq
    ELSE Failed(sq, "BadSeqLength")

\* CommandSerializer: a struct, tuple struct, unit struct or unit variant is
\* a command (its name, then its fields); nothing else is
CommandSerializer(pass, length, cmd, output) ==
    IF cmd.k \in {"struct", "tuple_struct"} THEN
        sequence_end(CommandSequencer(
            name_element(sequence_begin(pass, length, output), cmd.b), cmd.c, 1))
    ELSE IF cmd.k \in {"unit_struct", "unit_variant"} THEN
        sequence_end(name_element(sequence_begin(pass, length, output), cmd.b))
    ELSE Failed(Sequence(pass, TRUE, NoError, 0, 0, output), "Custom")

\* <Command<T> as Serialize>::serialize, the second pass once the first
\* returned `counted`
Command_emit(cmd, output, counted) ==
    IF ~counted.ok THEN Failed(Sequence("emit", TRUE, NoError, 0, 0, output), "Custom")
    ELSE CommandSerializer("emit", counted.length, cmd, output)

Command_serialize(cmd, output) ==
    Command_emit(cmd, output, CommandSerializer("length", -1, cmd, output))

-----------------------------------------------------------------------------
(* Destination types: what the caller's Deserialize impl asks for *)

Type(kind, c) == [k |-> kind, c |-> c]
TBool == Type("bool", << >>)
TInt == Type("int", << >>)
TStr == Type("str", << >>)
TBytes == Type("bytes", << >>)
TUnit == Type("unit", << >>)
TOpt(t) == Type("opt", <<t>>)
TVec(t) == Type("vec", <<t>>)
TTuple(ts) == Type("tuple", ts)
TRes(t, e) == Type("res", <<t, e>>)
\* the untagged Data enum of the tests, whose visitor takes whatever
\* deserialize_any hands it
TData == Type("data", << >>)

-----------------------------------------------------------------------------
(* de.rs: the Deserializer *)

\* Bulk strings can be up to 512 MB
MAX_BULK_LENGTH == 512 * 1024 * 1024

DeOk(v, rest, reads) == [ok |-> TRUE, v |-> v, e |-> NoError, rest |-> rest, reads |-> reads]
DeErr(e, rest, reads) == [ok |-> FALSE, v |-> NoValue, e |-> e, rest |-> rest, reads |-> reads]
NoResult == [ok |-> FALSE, v |-> NoValue, e |-> NoError, rest |-> NoBytes, reads |-> 0]

Length == Err("Length", 0, NoBytes)
TrailingData == Err("TrailingData", 0, NoBytes)
UnfinishedArray == Err("UnfinishedArray", 0, NoBytes)
Custom == Err("Custom", 0, NoBytes)
Redis(message) == Err("Redis", 0, message)

\* The three deserializers a Deserialize impl can be handed:
\* BaseDeserializer { header: ParseHeader | TaggedHeader, input },
\* ResultPlainOkPattern, and serde's BorrowedBytesDeserializer over the message
UnparsedDeserializer == [d |-> "base", h |-> NoHeader, msg |-> NoBytes]
PreParsedDeserializer(header) == [d |-> "base", h |-> header, msg |-> NoBytes]
ResultPlainOkPattern == [d |-> "plainok", h |-> NoHeader, msg |-> NoBytes]
BorrowedBytesDeserializer(message) == [d |-> "bytes", h |-> NoHeader, msg |-> message]

\* apply_parser: the cursor moves to the tail only when the parser succeeds
apply_parser_never_advance(inp, res) == [res EXCEPT !.rest = inp]

apply_parser(inp, res) == IF res.ok THEN res ELSE [res EXCEPT !.rest = inp]

\* ReadHeader::read_header: a TaggedHeader returns itself without touching
\* the input, ParseHeader parses one from the input
HeaderRead(res, reads) == [ok |-> res.ok, h |-> res.h, e |-> res.e, rest |-> res.rest, reads |-> reads]

reparse_header(des, inp) == HeaderRead(apply_parser(inp, read_header(inp)), 1)

base_read_header(des, inp) ==
    IF des.h = NoHeader THEN HeaderRead(apply_parser(inp, read_header(inp)), 1)
    ELSE HeaderRead(ParseOk(des.h, NoBytes, inp), 0)

\* number of parse::read_header calls a base_read_header result stands for
Reads(parsed) == parsed.reads

\* serde's visitors: what the Visitor of destination type t does with each
\* visit_* call (a call it does not implement is an invalid_type error)
VisitBool(t, b, rest, reads) ==
    IF t.k = "bool" THEN DeOk(VBool(b), rest, reads) ELSE DeErr(Custom, rest, reads)

VisitI64(t, n, rest, reads) ==
    IF t.k \in {"int", "data"} THEN DeOk(VInt(n), rest, reads) ELSE DeErr(Custom, rest, reads)

VisitBorrowedBytes(t, b, rest, reads) ==
    IF t.k = "str" THEN DeOk(VStr(b), rest, reads)
    ELSE IF t.k \in {"bytes", "data"} THEN DeOk(VBytes(b), rest, reads)
    ELSE DeErr(Custom, rest, reads)

VisitBorrowedStr(t, b, rest, reads) == VisitBorrowedBytes(t, b, rest, reads)

VisitUnit(t, rest, reads) ==
    IF t.k \in {"unit", "data"} THEN DeOk(VUnit, rest, reads)
    ELSE IF t.k = "opt" THEN DeOk(VNone, rest, reads)
    ELSE DeErr(Custom, rest, reads)

\* BoolVisitAdapter::visit_i64
bool_adapter_truthy(t, v, rest, reads) ==
    IF v = 0 THEN VisitBool(t, FALSE, rest, reads) ELSE VisitBool(t, TRUE, rest, reads)

bool_adapter_visit_i64(t, v, rest, reads) ==
    IF v = 0 THEN VisitBool(t, FALSE, rest, reads)
    ELSE IF v = 1 THEN VisitBool(t, TRUE, rest, reads)
    ELSE VisitI64(t, v, rest, reads)

\* an enlargement that forgot the array's own two bytes
enlarge_eof_per_element(n, remaining) == SaturatingAdd(n, SaturatingMul3(remaining))

\* the enlarged count deserialize_any reports for an UnexpectedEof from
\* inside an array with `remaining` elements not yet requested
enlarge_eof(n, remaining) == SaturatingAdd(SaturatingAdd(n, SaturatingMul3(remaining)), 2)

\* the Ok / Err arm ResultAccess hands to the visitor of Result<T, E>
WrapOk(r) == IF r.ok THEN [r EXCEPT !.v = VOk(r.v)] ELSE r
WrapErr(r) == IF r.ok THEN [r EXCEPT !.v = VErr(r.v)] ELSE r
WrapSome(r) == IF r.ok THEN [r EXCEPT !.v = VSome(r.v)] ELSE r

\* the variant deserialize_enum picks for a parsed header
result_arm_no_err(header) ==
    IF header = SimpleString(<<"O", "K">>) THEN "plain_ok" ELSE "ok"

result_arm_no_plain_ok(header) ==
    IF header.t = "Error" THEN "err" ELSE "ok"

result_arm(header) ==
    IF header = SimpleString(<<"O", "K">>) THEN "plain_ok"
    ELSE IF header.t = "Error" THEN "err"
    ELSE "ok"

\* deserialize_option: is the parsed header the absent option
option_is_none_bulk_too(header) == header.t \in {"Null", "BulkString"}

option_is_none(header) == header = Null

\* a decode result with `reads` more parse::read_header calls counted
AddReads(r, reads) == [r EXCEPT !.reads = @ + reads]

RECURSIVE Deserialize(_, _, _)
RECURSIVE deserialize_any(_, _, _, _)
RECURSIVE visit_header(_, _, _)
RECURSIVE VisitSeq(_, _, _, _, _, _)
RECURSIVE next_element_seed(_, _, _, _, _, _)
RECURSIVE deserialize_option(_, _)
RECURSIVE deserialize_enum(_, _)

\* SeqAccess::next_element_seed for element i, where `el` is the result of
\* deserializing it from the SeqAccess input, and the visitor's next step
next_element_seed(t, i, acc, length, reads, el) ==
    IF ~el.ok THEN [r |-> DeErr(el.e, el.rest, reads + el.reads), n |-> length - 1]
    ELSE VisitSeq(t, i + 1, Append(acc, el.v), length - 1, el.rest, reads + el.reads)

\* the type the visitor of t asks next_element for at position i
ElementType(t, i) == IF t.k = "vec" THEN t.c[1] ELSE IF t.k = "data" THEN t ELSE t.c[i]

\* Visitor::visit_seq of Vec<T> and of Data (elements until next_element
\* returns None) and of a tuple (one next_element per field, None is
\* invalid_length), over SeqAccess { length, input }.  Returns the visitor's result with the
\* SeqAccess length left in `n`.
VisitSeq(t, i, acc, length, inp, reads) ==
    IF t.k = "tuple" /\ i > Len(t.c) THEN [r |-> DeOk(VTuple(acc), inp, reads), n |-> length]
    ELSE IF length = 0 THEN
        IF t.k \in {"vec", "data"} THEN [r |-> DeOk(VSeq(acc), inp, reads), n |-> length]
        ELSE [r |-> DeErr(Custom, inp, reads), n |-> length]
    ELSE next_element_seed(t, i, acc, length, reads,
            Deserialize(ElementType(t, i), UnparsedDeserializer, inp))

\* deserialize_any, the Array arm after visitor.visit_seq returned `seq`
finish_array_any_count(seq) ==
    IF seq.r.ok THEN seq.r
    ELSE IF seq.r.e.k = "UnexpectedEof" THEN
        DeErr(UnexpectedEof(enlarge_eof(seq.r.e.n, seq.n)), seq.r.rest, seq.r.reads)
    ELSE seq.r

finish_array(seq) ==
    IF seq.r.ok THEN
        IF seq.n > 0 THEN DeErr(UnfinishedArray, seq.r.rest, seq.r.reads)
        ELSE seq.r
    ELSE IF seq.r.e.k = "UnexpectedEof" THEN
        DeErr(UnexpectedEof(enlarge_eof(seq.r.e.n, seq.n)), seq.r.rest, seq.r.reads)
    ELSE seq.r

\* deserialize_any, the BulkString arm after read_exact returned `body`
visit_bulk(t, body, reads) ==
    IF ~body.ok THEN DeErr(body.e, body.rest, reads)
    ELSE VisitBorrowedBytes(t, body.p, body.rest, reads)

\* deserialize_any, the match on the header that read_header returned
visit_header(t, adapter, parsed) ==
    IF ~parsed.ok THEN DeErr(parsed.e, parsed.rest, Reads(parsed))
    ELSE CASE parsed.h.t = "SimpleString" ->
                VisitBorrowedBytes(t, parsed.h.p, parsed.rest, Reads(parsed))
           [] parsed.h.t = "Error" -> DeErr(Redis(parsed.h.p), parsed.rest, Reads(parsed))
           [] parsed.h.t = "Integer" ->
                IF adapter THEN bool_adapter_visit_i64(t, parsed.h.n, parsed.rest, Reads(parsed))
                ELSE VisitI64(t, parsed.h.n, parsed.rest, Reads(parsed))
           [] parsed.h.t = "BulkString" ->
                IF parsed.h.n > MAX_BULK_LENGTH THEN DeErr(Length, parsed.rest, Reads(parsed))
                ELSE IF ~TryIntoUsize(parsed.h.n).ok THEN DeErr(Length, parsed.rest, Reads(parsed))
                ELSE visit_bulk(t, apply_parser(parsed.rest,
                                    read_exact(TryIntoUsize(parsed.h.n).n, parsed.rest)),
                                Reads(parsed))
           [] parsed.h.t = "Array" ->
                IF ~TryIntoUsize(parsed.h.n).ok THEN DeErr(Length, parsed.rest, Reads(parsed))
                ELSE IF t.k \notin {"vec", "tuple", "data"} THEN DeErr(Custom, parsed.rest, Reads(parsed))
                ELSE finish_array(VisitSeq(t, 1, << >>, TryIntoUsize(parsed.h.n).n, parsed.rest,
                                           Reads(parsed)))
           [] parsed.h.t = "Null" -> VisitUnit(t, parsed.rest, Reads(parsed))

\* BaseDeserializer::deserialize_any with the visitor of destination type t;
\* `adapter` is TRUE when the visitor is wrapped in BoolVisitAdapter
deserialize_any(t, adapter, des, inp) == visit_header(t, adapter, base_read_header(des, inp))

\* BaseDeserializer::deserialize_option, after read_header returned `parsed`
deserialize_option(t, parsed) ==
    IF ~parsed.ok THEN DeErr(parsed.e, parsed.rest, Reads(parsed))
    ELSE IF option_is_none(parsed.h) THEN DeOk(VNone, parsed.rest, Reads(parsed))
    ELSE WrapSome(AddReads(Deserialize(t.c[1], PreParsedDeserializer(parsed.h), parsed.rest),
                           Reads(parsed)))

\* BaseDeserializer::deserialize_enum for Result, after read_header returned
\* `parsed`: ResultAccess picks the variant and the deserializer of its payload
deserialize_enum(t, parsed) ==
    IF ~parsed.ok THEN DeErr(parsed.e, parsed.rest, Reads(parsed))
    ELSE IF result_arm(parsed.h) = "plain_ok" THEN
        WrapOk(AddReads(Deserialize(t.c[1], ResultPlainOkPattern, parsed.rest), Reads(parsed)))
    ELSE IF result_arm(parsed.h) = "err" THEN
        WrapErr(AddReads(Deserialize(t.c[2], BorrowedBytesDeserializer(parsed.h.p), parsed.rest),
                         Reads(parsed)))
    ELSE WrapOk(AddReads(Deserialize(t.c[1], PreParsedDeserializer(parsed.h), parsed.rest),
                         Reads(parsed)))

\* T::deserialize(deserializer) for destination type t
Deserialize(t, des, inp) ==
    IF des.d = "plainok" THEN
        \* ResultPlainOkPattern: bytes, byte_buf and unit have their own
        \* methods, everything else is forwarded to deserialize_any
        IF t.k = "bytes" THEN VisitBorrowedBytes(t, <<"O", "K">>, inp, 0)
        ELSE IF t.k = "unit" THEN VisitUnit(t, inp, 0)
        ELSE IF t.k = "str" THEN VisitBorrowedStr(t, <<"O", "K">>, inp, 0)
        ELSE DeErr(Custom, inp, 0)
    ELSE IF des.d = "bytes" THEN
        \* BorrowedBytesDeserializer: every method is visit_borrowed_bytes
        VisitBorrowedBytes(t, des.msg, inp, 0)
    ELSE CASE t.k = "bool" -> deserialize_any(t, TRUE, des, inp)
           [] t.k = "opt" -> deserialize_option(t, base_read_header(des, inp))
           [] t.k = "res" -> deserialize_enum(t, base_read_header(des, inp))
           [] OTHER -> deserialize_any(t, FALSE, des, inp)

\* a decode that put the cursor back where it was when it failed
cursor_decode_rollback(t, inp) ==
    [Deserialize(t, UnparsedDeserializer, inp) EXCEPT
        !.rest = IF Deserialize(t, UnparsedDeserializer, inp).ok THEN @ ELSE inp]

\* Deserializer::new(&mut input) and T::deserialize(deserializer)
cursor_decode(t, inp) == Deserialize(t, UnparsedDeserializer, inp)

\* from_bytes, after the value was deserialized with result `r`
check_trailing(r) ==
    IF ~r.ok THEN r
    ELSE IF r.rest = << >> THEN r
    ELSE DeErr(TrailingData, r.rest, r.reads)

from_bytes_ignore_tail(t, inp) == cursor_decode(t, inp)

from_bytes(t, inp) == check_trailing(cursor_decode(t, inp))

-----------------------------------------------------------------------------
(* The inputs the callers are driven with *)

MaxStrLen == 2      \* longest text / bytes payload that is encoded
MaxSeqLen == 2      \* longest Vec that is encoded
MaxWireItems == 2   \* most wire fragments in a received buffer

BoundedSeqs(S, n) == UNION {[1..m -> S] : m \in 0..n}

PayloadBytes == {"a", CR, LF}
Payloads == BoundedSeqs(PayloadBytes, MaxStrLen)
IntVals == {I64_MIN, -1, 0, 1, 10, I64_MAX}

RECURSIVE ProductOf(_, _)
RECURSIVE ValuesOf(_)

\* all value tuples of the field types ts[i..]
ProductOf(ts, i) ==
    IF i > Len(ts) THEN {<< >>}
    ELSE {<<v>> \o rest : v \in ValuesOf(ts[i]), rest \in ProductOf(ts, i + 1)}

\* the values of Rust type t
ValuesOf(t) ==
    CASE t.k = "bool" -> {VBool(TRUE), VBool(FALSE)}
      [] t.k = "int" -> {VInt(n) : n \in IntVals}
      [] t.k = "str" -> {VStr(b) : b \in Payloads}
      [] t.k = "bytes" -> {VBytes(b) : b \in Payloads}
      [] t.k = "unit" -> {VUnit}
      [] t.k = "opt" -> {VNone} \cup {VSome(v) : v \in ValuesOf(t.c[1])}
      [] t.k = "vec" -> {VSeq(vs) : vs \in BoundedSeqs(ValuesOf(t.c[1]), MaxSeqLen)}
      [] t.k = "tuple" -> {VTuple(vs) : vs \in ProductOf(t.c, 1)}
      [] t.k = "res" -> {VOk(v) : v \in ValuesOf(t.c[1])} \cup {VErr(v) : v \in ValuesOf(t.c[2])}

TypedValues(types) == UNION {{<<t, v>> : v \in ValuesOf(t)} : t \in types}

ScalarTypes == {TBool, TInt, TStr, TBytes, TUnit}
Wrappers(types) == {TOpt(t) : t \in types} \cup {TRes(t, TStr) : t \in types}
SeqTypes ==
    {TVec(TInt), TVec(TUnit), TVec(TOpt(TBool)), TVec(TVec(TUnit)),
     TTuple(<<TBool, TStr>>), TTuple(<<TRes(TUnit, TBytes), TOpt(TInt)>>)}

\* the codec caller: scalars, one and two levels of Option / Result around
\* them, sequences, and Option / Result around sequences
CodecTypes ==
    ScalarTypes \cup Wrappers(ScalarTypes) \cup Wrappers(Wrappers(ScalarTypes))
    \cup SeqTypes \cup Wrappers(SeqTypes) \cup {TRes(TUnit, TInt)}

\* the stream caller (pipelining, truncated reads)
StreamTypes ==
    {TBool, TInt, TStr, TUnit, TOpt(TBytes), TRes(TUnit, TStr), TRes(TOpt(TInt), TStr),
     TVec(TInt), TVec(TVec(TUnit)), TTuple(<<TInt, TOpt(TBool)>>), TOpt(TVec(TUnit))}
SecondTypes == {TBool, TUnit, TVec(TUnit)}

\* the wire caller: buffers received from a server, made of whole and
\* partial RESP fragments
Fragments ==
    { <<"+", "O", "K", CR, LF>>, <<"$", "-", "1", CR, LF>>, <<"*", "-", "1", CR, LF>>,
      <<"-", "a", CR, LF>>, <<"+", "a", CR, LF>>, <<":", "0", CR, LF>>, <<":", "1", CR, LF>>,
      <<":", "7", CR, LF>>, <<"$", "1", CR, LF, "a", CR, LF>>, <<"$", "2", CR, LF, CR, LF, CR, LF>>,
      <<"*", "0", CR, LF>>, <<"*", "1", CR, LF>>, <<"*", "2", CR, LF>>,
      <<"$", "1", CR, LF, "a">>, <<"+", "O", "K", CR>>, <<"x">> }
RECURSIVE Concat(_)
Concat(ss) == IF ss = << >> THEN << >> ELSE Head(ss) \o Concat(Tail(ss))
WireInputs == {Concat(fs) : fs \in BoundedSeqs(Fragments, MaxWireItems)}
WireTypes ==
    ScalarTypes \cup {TOpt(TInt), TOpt(TUnit), TRes(TUnit, TStr), TRes(TStr, TStr),
                      TRes(TBytes, TBytes), TRes(TInt, TStr), TOpt(TRes(TUnit, TStr)),
                      TRes(TOpt(TStr), TStr), TVec(TInt), TVec(TOpt(TStr)),
                      TTuple(<<TBool, TStr>>), TVec(TRes(TUnit, TStr)),
                      TRes(TUnit, TInt), TOpt(TOpt(TRes(TStr, TBytes)))}

\* the parser caller: header lines with every kind of payload and terminator,
\* bare number texts, and raw bytes for read_exact
MaxExact == 3
NumberTexts ==
    { <<>>, <<"+">>, <<"-">>, <<"0">>, <<"1">>, <<"7">>, <<"-", "1">>,
      <<"-", "0", "1">>, <<"-", "0", "0", "1">>, <<"+", "1">>, <<"-", "0">>,
      <<"+", "0">>, <<"0", "0">>, <<"0", "0", "7">>, <<"-", "2">>, <<"1", "a">>,
      <<"a", "1">>, <<"a">>, <<"-", "-", "1">>, <<"+", "-", "1">>, <<"1", "-">>,
      <<"1", "+">>, <<" ", "1">>, <<"5", "3", "6", "8", "7", "0", "9", "1", "2">>,
      <<"5", "3", "6", "8", "7", "0", "9", "1", "3">>,
      <<"2", "1", "4", "7", "4", "8", "3", "6", "4", "7">>,
      <<"2", "1", "4", "7", "4", "8", "3", "6", "4", "8">>,
      <<"-", "2", "1", "4", "7", "4", "8", "3", "6", "4", "8">>,
      <<"-", "2", "1", "4", "7", "4", "8", "3", "6", "4", "9">>,
      <<"0", "2", "1", "4", "7", "4", "8", "3", "6", "4", "7">>,
      <<"-", "0", "0", "2", "1", "4", "7", "4", "8", "3", "6", "4", "8">>,
      <<"+", "2", "1", "4", "7", "4", "8", "3", "6", "4", "7">>,
      <<"2", "1", "4", "7", "4", "8", "3", "6", "5", "0">>,
      <<"2", "1", "4", "7", "4", "8", "3", "6", "4", "7", "0">>,
      <<"9", "9", "9", "9", "9", "9", "9", "9", "9", "9">>,
      <<"-", "9", "9", "9", "9", "9", "9", "9", "9", "9", "9">>,
      <<"4", "2", "9", "4", "9", "6", "7", "2", "9", "6">>,
      <<"4", "2", "9", "4", "9", "6", "7", "2", "9", "7">> }
TagBytes == {"+", "-", ":", "$", "*", "x"}
LineEnds == {<<CR, LF>>, <<CR>>, << >>, <<LF>>, <<CR, CR>>, <<LF, CR>>, <<CR, LF, "a">>, <<CR, "a">>}
HeaderLines ==
    {<<t>> \o p \o e : t \in TagBytes, p \in NumberTexts \cup {<<"O", "K">>}, e \in LineEnds}
RawBytes == BoundedSeqs(PayloadBytes, MaxExact + 2)
ParseInputs == HeaderLines \cup NumberTexts \cup RawBytes
ExactLengths == 0..MaxExact \cup {I64_MAX}

\* the decoding caller: one header line of every kind, bulk strings with
\* their payload, arrays of every small count, followed by further items
HeadLines ==
    { <<":", "0", CR, LF>>, <<":", "1", CR, LF>>, <<":", "2", CR, LF>>,
      <<":", "-", "1", CR, LF>>, <<"+", "a", CR, LF>>, <<"+", "O", "K", CR, LF>>,
      <<"-", "a", CR, LF>>, <<"$", "-", "1", CR, LF>>, <<"*", "-", "1", CR, LF>>,
      <<"$", "-", "0", "1", CR, LF>>, <<"*", "-", "0", "0", "1", CR, LF>>,
      <<"$", "-", "2", CR, LF>>, <<"*", "-", "2", CR, LF>>,
      <<"$", "-", "1", "0", CR, LF>>,
      <<"$", "5", "3", "6", "8", "7", "0", "9", "1", "2", CR, LF>>,
      <<"$", "5", "3", "6", "8", "7", "0", "9", "1", "3", CR, LF>>,
      <<"*", "5", "3", "6", "8", "7", "0", "9", "1", "2", CR, LF>>,
      <<"*", "5", "3", "6", "8", "7", "0", "9", "1", "3", CR, LF>>,
      <<"$", "2", "1", "4", "7", "4", "8", "3", "6", "4", "7", CR, LF>>,
      <<"*", "2", "1", "4", "7", "4", "8", "3", "6", "4", "7", CR, LF>>,
      <<"$", "1", CR, LF, "a">>, <<"$", "1", CR, LF, "a", "a", CR, LF>>,
      <<"$", "0", CR, LF>> }
Elements ==
    { <<":", "1", CR, LF>>, <<"$", "1", CR, LF, "a", CR, LF>>, <<"$", "-", "1", CR, LF>>,
      <<":">>, <<"*", "1", CR, LF>>, <<"*", "2", CR, LF>> }
BulkItems == {serialize_bulk_string(NoBytes, b).out : b \in Payloads}
ArrayHeads == {serialize_array_header(NoBytes, c).out : c \in 0..(MaxWireItems + 1)}
DecodeInputs ==
    {h \o Concat(items) : h \in HeadLines \cup BulkItems \cup ArrayHeads,
                          items \in BoundedSeqs(Elements, MaxWireItems)}
DecodeTypes ==
    ScalarTypes \cup {TData, TOpt(TBytes), TOpt(TData), TVec(TInt), TVec(TData), TVec(TVec(TInt)),
                      TTuple(<<TInt>>), TTuple(<<TInt, TInt>>), TRes(TBytes, TStr)}

-----------------------------------------------------------------------------
(* The callers *)

\* no Command was serialized yet
NoSequence == Sequence("none", FALSE, NoError, 0, 0, NoBytes)

Idle ==
    /\ ty2 = TUnit /\ val2 = NoValue
    /\ out = NoBytes /\ before = NoBytes /\ serres = SerOk(NoBytes)
    /\ seqser = SeqState(0, NoBytes) /\ emitted = 0
    /\ dryrun = NoSequence /\ realrun = NoSequence
    /\ deres = NoResult /\ deres2 = NoResult /\ wrapres = NoResult
    /\ appended = 0
    /\ leaf = ParseErr(NoError) /\ numres = [ok |-> FALSE, n |-> 0] /\ exactLen = 0

\* what a Serialize impl can hand to the Serializer
EncodeTexts == {<< >>, <<"a">>, <<"a", CR>>, <<LF>>}
EncodeLeaves ==
    {VBool(TRUE), VBool(FALSE), VUnit, VNone}
    \cup {VInt(n) : n \in IntVals}
    \cup {VWide(7, << >>), VWide(I64_MAX, << >>), VWide(-1, <<"+">>), VWide(0, <<"-">>)}
    \cup {VStr(b) : b \in EncodeTexts}
    \cup {VBytes(b) : b \in EncodeTexts \cup {<<NonUtf8>>, <<"a", NonUtf8>>}}
    \cup {VUnitStruct(<<"S">>), VUnitVariant(<<"V">>)}
    \cup {Value(k, 0, NoBytes, << >>) : k \in {"f64", "map", "struct", "variant"}}
EncodeElements ==
    {VUnit, VInt(1), VWide(-1, <<"+">>), VBytes(<<NonUtf8>>), VOk(VUnit), VErr(VStr(<<LF>>))}
EncodeSeqs ==
    UNION {{VSeq(vs), VTuple(vs)} \cup {VHinted(len, vs) : len \in -1..(MaxSeqLen + 1)}
           : vs \in BoundedSeqs(EncodeElements, MaxSeqLen)}
EncodeWrapped(S) == UNION {{VSome(v), VNewtype(v), VOk(v), VErr(v)} : v \in S}
EncodeInner == EncodeLeaves \cup EncodeSeqs \cup EncodeWrapped(EncodeLeaves)
EncodeValues == EncodeInner \cup EncodeWrapped(EncodeInner)

\* a caller about to encode one value into a sink that may already hold text
InitEncode ==
    /\ sink \in {"Vec", "String"}
    /\ mode = "encode" /\ pc = "start"
    /\ ty = TUnit /\ val \in EncodeValues
    /\ input = NoBytes /\ cursor = NoBytes
    /\ ty2 = TUnit /\ val2 = NoValue
    /\ out \in {NoBytes, <<"x">>} /\ before = out /\ serres = SerOk(out)
    /\ seqser = SeqState(0, NoBytes) /\ emitted = 0
    /\ dryrun = NoSequence /\ realrun = NoSequence
    /\ deres = NoResult /\ deres2 = NoResult /\ wrapres = NoResult
    /\ appended = 0
    /\ leaf = ParseErr(NoError) /\ numres = [ok |-> FALSE, n |-> 0] /\ exactLen = 0

\* a caller about to encode one value of a codec type
Init ==
    /\ sink = "Vec"
    /\ mode = "codec" /\ pc = "start"
    /\ \E tv \in TypedValues(CodecTypes) : ty = tv[1] /\ val = tv[2]
    /\ input = NoBytes /\ cursor = NoBytes
    /\ Idle

\* a caller about to write to, and then read from, a stream
InitStream ==
    /\ sink = "Vec"
    /\ mode = "stream" /\ pc = "start"
    /\ \E tv \in TypedValues(StreamTypes) : ty = tv[1] /\ val = tv[2]
    /\ input = NoBytes /\ cursor = NoBytes
    /\ Idle

\* a caller holding a received buffer and a destination type
InitWire ==
    /\ sink = "Vec"
    /\ mode = "wire" /\ pc = "loaded"
    /\ ty \in WireTypes /\ val = NoValue
    /\ input \in WireInputs /\ cursor = input
    /\ Idle

\* a caller of the leaf parsers holding a buffer
InitParse ==
    /\ sink = "Vec"
    /\ mode = "parse" /\ pc = "loaded"
    /\ ty = TUnit /\ val = NoValue
    /\ input \in ParseInputs /\ cursor = input
    /\ Idle

\* a caller decoding one value of a destination type from a buffer
InitDecode ==
    /\ sink = "Vec"
    /\ mode = "decode" /\ pc = "loaded"
    /\ ty \in DecodeTypes /\ val = NoValue
    /\ input \in DecodeInputs /\ cursor = input
    /\ Idle

\* let serializer = Serializer::new(&mut out); val.serialize(serializer)
SerializeValue ==
    /\ pc = "start"
    /\ serres' = to_output(val, out)
    /\ out' = serres'.out
    /\ before' = out
    /\ pc' = "serialized"
    /\ UNCHANGED <<mode, ty, val, ty2, val2, input, cursor, deres, deres2, wrapres, appended, leaf, numres, exactLen, sink, seqser, emitted, dryrun, realrun>>

\* a second, independent value serialized into the same sink
SerializeSecond ==
    /\ mode = "stream" /\ pc = "serialized" /\ serres.ok
    /\ \E tv \in TypedValues(SecondTypes) :
        /\ ty2' = tv[1] /\ val2' = tv[2]
        /\ serres' = to_output(tv[2], out)
    /\ out' = serres'.out
    /\ before' = out
    /\ pc' = "serialized2"
    /\ UNCHANGED <<mode, ty, val, input, cursor, deres, deres2, wrapres, appended, leaf, numres, exactLen, sink, seqser, emitted, dryrun, realrun>>

\* the whole sink arrives at the reader
Receive ==
    /\ pc \in {"serialized", "serialized2"} /\ serres.ok
    /\ input' = out /\ cursor' = out
    /\ pc' = IF pc = "serialized" THEN "loaded" ELSE "loaded2"
    /\ UNCHANGED <<mode, ty, val, ty2, val2, out, serres, deres, deres2, wrapres, appended, leaf, numres, exactLen, sink, before, seqser, emitted, dryrun, realrun>>

\* only the first k bytes of the sink have arrived
ReceivePrefix ==
    /\ mode = "stream" /\ pc = "serialized" /\ serres.ok
    /\ \E k \in 0..(Len(out) - 1) :
        /\ input' = Take(out, k) /\ cursor' = Take(out, k)
    /\ pc' = "partial"
    /\ UNCHANGED <<mode, ty, val, ty2, val2, out, serres, deres, deres2, wrapres, appended, leaf, numres, exactLen, sink, before, seqser, emitted, dryrun, realrun>>

\* T::deserialize(Deserializer::new(&mut cursor))
CursorDecode ==
    /\ pc \in {"loaded", "loaded2", "partial", "extended"}
    /\ deres' = cursor_decode(ty, cursor)
    /\ cursor' = deres'.rest
    /\ deres2' = deres
    /\ pc' = CASE pc = "loaded" -> "decoded"
               [] pc = "loaded2" -> "decoded1of2"
               [] pc = "partial" -> "failed"
               [] pc = "extended" -> "retried"
    /\ UNCHANGED <<mode, ty, val, ty2, val2, out, serres, input, wrapres, appended, leaf, numres, exactLen, sink, before, seqser, emitted, dryrun, realrun>>

\* the second pipelined decode, on the cursor the first one left
CursorDecodeSecond ==
    /\ pc = "decoded1of2"
    /\ deres' = cursor_decode(ty2, cursor)
    /\ cursor' = deres'.rest
    /\ deres2' = deres
    /\ pc' = "decoded2of2"
    /\ UNCHANGED <<mode, ty, val, ty2, val2, out, serres, input, wrapres, appended, leaf, numres, exactLen, sink, before, seqser, emitted, dryrun, realrun>>

\* after a failed decode of a partial buffer, j more bytes arrive and the
\* caller retries from the start of the buffer
Extend ==
    /\ pc = "failed"
    /\ \E j \in 1..(Len(out) - Len(input)) :
        /\ input' = Take(out, Len(input) + j)
        /\ cursor' = Take(out, Len(input) + j)
        /\ appended' = j
    /\ pc' = "extended"
    /\ UNCHANGED <<mode, ty, val, ty2, val2, out, serres, deres, deres2, wrapres, leaf, numres, exactLen, sink, before, seqser, emitted, dryrun, realrun>>

\* from_bytes::<T>(input)
FromBytes ==
    /\ pc = "loaded" /\ mode \in {"codec", "wire"}
    /\ deres' = from_bytes(ty, input)
    /\ pc' = "from_bytes"
    /\ UNCHANGED <<mode, ty, val, ty2, val2, out, serres, input, cursor, deres2, wrapres, appended, leaf, numres, exactLen, sink, before, seqser, emitted, dryrun, realrun>>

\* the same buffer decoded at T and at Option<T> / Result<T, String>
DecodeWrapped ==
    /\ mode = "wire" /\ pc = "loaded"
    /\ \E w \in {TOpt(ty), TRes(ty, TStr)} :
        /\ ty2' = w
        /\ wrapres' = cursor_decode(w, cursor)
    /\ deres' = cursor_decode(ty, cursor)
    /\ cursor' = deres'.rest
    /\ pc' = "wrapped"
    /\ UNCHANGED <<mode, val, ty, val2, out, serres, input, deres2, appended, leaf, numres, exactLen, sink, before, seqser, emitted, dryrun, realrun>>

\* ParseHeader::read_header on the cursor: apply_parser(self, parse::read_header)
ReadHeader ==
    /\ mode = "parse" /\ pc = "loaded"
    /\ leaf' = apply_parser(cursor, read_header(cursor))
    /\ cursor' = leaf'.rest
    /\ pc' = "header"
    /\ UNCHANGED <<mode, ty, val, ty2, val2, out, serres, input, deres, deres2, wrapres, appended, numres, exactLen, sink, before, seqser, emitted, dryrun, realrun>>

\* apply_parser(input, |input| parse::read_exact(len, input)), for some len
ReadExact ==
    /\ mode = "parse" /\ pc = "loaded"
    /\ \E len \in ExactLengths :
        /\ exactLen' = len
        /\ leaf' = apply_parser(cursor, read_exact(len, cursor))
    /\ cursor' = leaf'.rest
    /\ pc' = "exact"
    /\ UNCHANGED <<mode, ty, val, ty2, val2, out, serres, input, deres, deres2, wrapres, appended, numres, sink, before, seqser, emitted, dryrun, realrun>>

\* parse_number(payload) on the whole buffer
ParseNumber ==
    /\ mode = "parse" /\ pc = "loaded"
    /\ numres' = parse_number(input)
    /\ pc' = "number"
    /\ UNCHANGED <<mode, ty, val, ty2, val2, out, serres, input, cursor, deres, deres2, wrapres, appended, leaf, exactLen, sink, before, seqser, emitted, dryrun, realrun>>

\* deserializer.deserialize_bool(visitor) with the visitor of ty, next to
\* deserializer.deserialize_any(visitor) on the same buffer
DecodeBool ==
    /\ mode = "decode" /\ pc = "loaded"
    /\ wrapres' = deserialize_any(ty, TRUE, UnparsedDeserializer, cursor)
    /\ deres' = deserialize_any(ty, FALSE, UnparsedDeserializer, cursor)
    /\ cursor' = wrapres'.rest
    /\ pc' = "asbool"
    /\ UNCHANGED <<mode, ty, val, ty2, val2, out, serres, input, deres2, appended, leaf, numres, exactLen, sink, before, seqser, emitted, dryrun, realrun>>

Next ==
    \/ SerializeValue
    \/ Receive
    \/ CursorDecode
    \/ FromBytes

NextStream ==
    \/ SerializeValue
    \/ SerializeSecond
    \/ Receive
    \/ ReceivePrefix
    \/ CursorDecode
    \/ CursorDecodeSecond
    \/ Extend

NextWire ==
    \/ CursorDecode
    \/ FromBytes
    \/ DecodeWrapped

NextParse ==
    \/ ReadHeader
    \/ ReadExact
    \/ ParseNumber

NextDecode ==
    \/ CursorDecode
    \/ DecodeBool

Spec == Init /\ [][Next]_vars
SpecStream == InitStream /\ [][NextStream]_vars
SpecWire == InitWire /\ [][NextWire]_vars
SpecParse == InitParse /\ [][NextParse]_vars
SpecDecode == InitDecode /\ [][NextDecode]_vars

\* the caller's Serialize impl asks for a sequence: serialize_seq(len) for
\* a Vec or an impl that states a length, serialize_tuple(len) for a tuple
BeginSeq ==
    /\ mode = "encode" /\ pc = "start" /\ val.k \in {"seq", "tuple", "hinted"}
    /\ LET start == IF val.k = "tuple" THEN serialize_tuple(out, Len(val.c))
                    ELSE serialize_seq(out, IF val.k = "hinted" THEN val.n ELSE Len(val.c))
       IN /\ seqser' = start.seq
          /\ out' = start.seq.out
          /\ serres' = [ok |-> start.ok, e |-> start.e, out |-> start.seq.out]
          /\ pc' = IF start.ok THEN "elements" ELSE "failed"
    /\ before' = out /\ emitted' = 0
    /\ UNCHANGED <<mode, ty, val, ty2, val2, input, cursor, deres, deres2, wrapres, appended, leaf, numres, exactLen, sink, dryrun, realrun>>

\* seq.serialize_element(&val.c[emitted + 1])?
SerializeElement ==
    /\ pc = "elements" /\ emitted < Len(val.c)
    /\ LET remain == checked_sub1(seqser.remaining)
           el == IF remain < 0 THEN SerErr("BadSeqLength", out)
                 ELSE Serialize(val.c[emitted + 1], "NullUnit", out)
       IN /\ serres' = el
          /\ out' = el.out
          /\ seqser' = IF remain < 0 THEN seqser ELSE SeqState(remain, el.out)
          /\ emitted' = IF el.ok THEN emitted + 1 ELSE emitted
          /\ pc' = IF el.ok THEN "elements" ELSE "failed"
    /\ UNCHANGED <<mode, ty, val, ty2, val2, input, cursor, deres, deres2, wrapres, appended, leaf, numres, exactLen, sink, before, dryrun, realrun>>

\* seq.end(), once every element was handed over
EndSeq ==
    /\ pc = "elements" /\ emitted = Len(val.c)
    /\ serres' = seq_end(seqser)
    /\ pc' = IF serres'.ok THEN "ended" ELSE "failed"
    /\ UNCHANGED <<mode, ty, val, ty2, val2, out, input, cursor, deres, deres2, wrapres, appended, leaf, numres, exactLen, sink, before, seqser, emitted, dryrun, realrun>>

NextEncode ==
    \/ SerializeValue
    \/ BeginSeq
    \/ SerializeElement
    \/ EndSeq

SpecEncode == InitEncode /\ [][NextEncode]_vars

\* the commands a caller can wrap in Command: structs of keyed arguments
\* and tuple structs of unkeyed ones, and values that are no command
MaxArgs == 2        \* most arguments of a command
CommandScalars == {VStr(<<"k">>), VInt(-10), VBytes(<<NonUtf8>>)}
CommandOptions == {VInt(6), VUnitVariant(<<"X">>), VBool(TRUE)}
CommandArgs ==
    CommandScalars
    \cup {VBool(TRUE), VBool(FALSE), VNone, VUnitVariant(<<"X">>),
          VNewtypeVariant(<<"E">>, VInt(6))}
    \cup {VSome(v) : v \in CommandOptions}
    \cup {VSeq(<<VStr(<<"a">>), VInt(1)>>), VSeq(<<VSeq(<< >>)>>),
          VMap(<<VStr(<<"f">>), VInt(1)>>)}
CommandValues ==
    UNION {{VStruct(<<"S">>, [i \in 1..Len(vs) |-> VField(<<"G">>, vs[i])]),
            VTupleStruct(<<"S">>, vs)} : vs \in BoundedSeqs(CommandArgs, MaxArgs)}
    \cup {VUnitStruct(<<"P">>), VInt(1), VSeq(<<VStr(<<"a">>)>>)}

\* a caller about to encode Command(val) into a sink that may hold text
InitCommand ==
    /\ sink \in {"Vec", "String"}
    /\ mode = "command" /\ pc = "start"
    /\ ty = TUnit /\ val \in CommandValues
    /\ input = NoBytes /\ cursor = NoBytes
    /\ ty2 = TUnit /\ val2 = NoValue
    /\ out \in {NoBytes, <<"x">>} /\ before = out /\ serres = SerOk(out)
    /\ seqser = SeqState(0, NoBytes) /\ emitted = 0
    /\ dryrun = NoSequence /\ realrun = NoSequence
    /\ deres = NoResult /\ deres2 = NoResult /\ wrapres = NoResult
    /\ appended = 0
    /\ leaf = ParseErr(NoError) /\ numres = [ok |-> FALSE, n |-> 0] /\ exactLen = 0

\* Command(val).serialize(Serializer::new(&mut out)): the length pass, then
\* the real pass with the length it returned
SerializeCommand ==
    /\ mode = "command" /\ pc = "start"
    /\ dryrun' = CommandSerializer("length", -1, val, out)
    /\ realrun' = Command_serialize(val, out)
    /\ serres' = [ok |-> realrun'.ok, e |-> realrun'.e, out |-> realrun'.out]
    /\ out' = realrun'.out
    /\ before' = out
    /\ pc' = "serialized"
    /\ UNCHANGED <<mode, ty, val, ty2, val2, input, cursor, deres, deres2, wrapres, appended, leaf, numres, exactLen, sink, seqser, emitted>>

NextCommand ==
    \/ SerializeCommand

SpecCommand == InitCommand /\ [][NextCommand]_vars

-----------------------------------------------------------------------------
(* Properties of the codec caller (Spec) *)

\* the first wire header a value is encoded to by a serializer whose
\* UnitBehavior is `unit`: "Null", "OK" (the +OK line), "Error" or "Other"
RECURSIVE HeadOf(_, _)
HeadOf(v, unit) ==
    CASE v.k = "none" -> "Null"
      [] v.k = "unit" -> IF unit = "ResultOkUnit" THEN "OK" ELSE "Null"
      [] v.k = "some" -> HeadOf(v.c[1], unit)
      [] v.k = "ok" -> HeadOf(v.c[1], "ResultOkUnit")
      [] v.k = "err" -> "Error"
      [] OTHER -> "Other"

\* the values no wrapper collapses:
\*   - a present option holds a value that is not encoded as Null,
\*   - an Ok arm holds unit itself, or a value encoded neither as +OK nor as
\*     an Error line,
\*   - an Err arm holds text or bytes without CR and LF
RECURSIVE Faithful(_, _)
Faithful(v, unit) ==
    CASE v.k = "some" -> HeadOf(v.c[1], unit) # "Null" /\ Faithful(v.c[1], unit)
      [] v.k = "ok" ->
            /\ v.c[1] = VUnit \/ HeadOf(v.c[1], "ResultOkUnit") \notin {"OK", "Error"}
            /\ Faithful(v.c[1], "ResultOkUnit")
      [] v.k = "err" -> v.c[1].k \in {"str", "bytes"} /\ \A i \in 1..Len(v.c[1].b) : v.c[1].b[i] \notin {CR, LF}
      [] v.k \in {"seq", "tuple"} -> \A i \in 1..Len(v.c) : Faithful(v.c[i], "NullUnit")
      [] OTHER -> TRUE

\* C1 as the spec states it: every supported value is encoded, and from_bytes
\* at its type gives the value back.
C1_RoundTripEveryValue ==
    /\ pc = "serialized" => serres.ok
    /\ pc = "from_bytes" => deres.ok /\ deres.v = val

\* C1, amended: for every supported value that no wrapper collapses
\* (Faithful), encoding succeeds and from_bytes at the value's type on the
\* encoded bytes gives the value back; every other supported value either
\* fails to encode or does not come back.
C1_RoundTrip ==
    /\ pc = "serialized" => (serres.ok \/ ~Faithful(val, "NullUnit"))
    /\ pc = "from_bytes" =>
        /\ input = serres.out
        /\ Faithful(val, "NullUnit") <=> (deres.ok /\ deres.v = val)

C1_Witness ==
    /\ pc = "from_bytes" /\ deres.ok /\ deres.v = val
    /\ val.k = "ok" /\ val.c[1].k = "some" /\ val.c[1].c[1] = VInt(I64_MIN)

\* C2 as the spec states it: an encoded option decodes, as an option, to
\* the same option (absent to absent, present(V) to present(V)).
C2_OptionEveryValue ==
    pc = "from_bytes" /\ ty.k = "opt" => deres.ok /\ deres.v = val

\* C2, amended: absent decodes to absent; present(V) decodes to present(V)
\* when V round-trips and is not encoded as Null; present(V) with V encoded
\* as Null (an absent option, a unit, or options around these) decodes to
\* absent.
C2_OptionRoundTrip ==
    pc = "from_bytes" /\ ty.k = "opt" =>
        /\ val = VNone => deres.ok /\ deres.v = VNone
        /\ val.k = "some" /\ HeadOf(val.c[1], "NullUnit") = "Null" =>
                deres.ok /\ deres.v = VNone /\ input = <<"$", "-", "1", CR, LF>>
        /\ val.k = "some" /\ HeadOf(val.c[1], "NullUnit") # "Null"
                /\ Faithful(val.c[1], "NullUnit") => deres.ok /\ deres.v = val

C2_Witness ==
    /\ pc = "from_bytes" /\ ty.k = "opt" /\ val.k = "some" /\ val.c[1].k = "seq"
    /\ Len(val.c[1].c) = MaxSeqLen /\ deres.v = val

-----------------------------------------------------------------------------
(* Properties of the stream caller (SpecStream) *)

\* the bytes to_vec produces for a value
Encoded(v) == to_output(v, NoBytes).out

\* C3: two values that each round-trip are encoded back-to-back into one
\* buffer; the first cursor decode yields the first value and leaves the
\* cursor on the encoding of the second, the second decode yields the second
\* value and leaves the cursor empty.
C3_Pipelining ==
    /\ pc = "decoded1of2" /\ Faithful(val, "NullUnit") /\ Faithful(val2, "NullUnit") =>
        /\ input = Encoded(val) \o Encoded(val2)
        /\ deres.ok /\ deres.v = val
        /\ cursor = Encoded(val2)
    /\ pc = "decoded2of2" /\ Faithful(val, "NullUnit") /\ Faithful(val2, "NullUnit") =>
        /\ deres2.ok /\ deres2.v = val
        /\ deres.ok /\ deres.v = val2
        /\ cursor = NoBytes

C3_Witness ==
    /\ pc = "decoded2of2" /\ val.k = "seq" /\ Len(val.c) = MaxSeqLen /\ val2.k = "seq"
    /\ Len(val2.c) > 0 /\ deres2.v = val /\ deres.v = val2 /\ cursor = NoBytes

\* C4: decoding a strict prefix (the empty one included) of the encoding of
\* a value that round-trips, at the value's type, fails with
\* UnexpectedEof(n), n > 0: it never succeeds and never fails otherwise.
C4_TruncatedIsEof ==
    pc = "failed" /\ Faithful(val, "NullUnit") =>
        /\ Len(input) < Len(out) /\ input = Take(out, Len(input))
        /\ ~deres.ok /\ deres.e.k = "UnexpectedEof" /\ deres.e.n > 0

C4_Witness ==
    /\ pc = "failed" /\ Faithful(val, "NullUnit") /\ val.k = "tuple"
    /\ Len(input) = Len(out) - 1 /\ deres.e.k = "UnexpectedEof"

\* C5 as the spec states it: when the decode of a truncated prefix failed
\* with UnexpectedEof(n) and the next k >= n bytes of the encoding arrive,
\* the decode retried from the start of the buffer succeeds.
C5_RetryAfterN ==
    pc = "retried" /\ Faithful(val, "NullUnit") /\ deres2.e.k = "UnexpectedEof"
        /\ appended >= deres2.e.n => deres.ok

\* C5, amended: the decode retried from the start of the longer buffer
\* succeeds, with the value and an empty cursor, exactly when the whole
\* encoding has arrived; while it has not, the retry fails with
\* UnexpectedEof(n'), n' > 0, again, also after k >= n bytes were appended.
C5_RetryWhenComplete ==
    pc = "retried" /\ Faithful(val, "NullUnit") =>
        /\ deres2.e.k = "UnexpectedEof"
        /\ input = out => deres.ok /\ deres.v = val /\ cursor = NoBytes
        /\ input # out => ~deres.ok /\ deres.e.k = "UnexpectedEof" /\ deres.e.n > 0

C5_Witness ==
    /\ pc = "retried" /\ Faithful(val, "NullUnit") /\ appended >= deres2.e.n
    /\ input # out /\ ~deres.ok /\ deres.e.k = "UnexpectedEof"

\* C6 as the spec states it: when a decode fails with UnexpectedEof(n), no
\* buffer obtained by appending fewer than n bytes decodes successfully.
C6_EofCountIsMinimum ==
    pc = "retried" /\ deres2.e.k = "UnexpectedEof" /\ appended < deres2.e.n => ~deres.ok

\* C6, what does hold: outside arrays the count is a minimum.
C6_LeafCountIsMinimum ==
    pc = "retried" /\ ty.k \notin {"vec", "tuple"} /\ (ty.k = "opt" => ty.c[1].k # "vec")
        /\ deres2.e.k = "UnexpectedEof" /\ appended < deres2.e.n => ~deres.ok

-----------------------------------------------------------------------------
(* Properties of the wire caller (SpecWire) *)

\* the first header of the received buffer
FirstHeader == read_header(input)

\* C7: from_bytes fails with TrailingData exactly when the value itself
\* decodes and at least one byte of the slice is left over, and otherwise
\* returns what the cursor decode returns; the cursor decode of the same
\* input never fails with TrailingData and leaves the unconsumed bytes, a
\* suffix of the input, in the cursor.
C7_TrailingData ==
    /\ pc = "from_bytes" =>
        /\ (~deres.ok /\ deres.e = TrailingData)
            <=> (cursor_decode(ty, input).ok /\ cursor_decode(ty, input).rest # NoBytes)
        /\ deres.e # TrailingData =>
            /\ deres.ok = cursor_decode(ty, input).ok
            /\ deres.v = cursor_decode(ty, input).v
            /\ deres.e = cursor_decode(ty, input).e
    /\ pc = "decoded" =>
        /\ deres.e # TrailingData
        /\ cursor = deres.rest
        /\ cursor = Drop(input, Len(input) - Len(cursor))
        /\ from_bytes(ty, input).ok => deres.ok /\ cursor = NoBytes

C7_Witness ==
    /\ pc = "from_bytes" /\ ~deres.ok /\ deres.e = TrailingData
    /\ cursor_decode(ty, input).ok /\ Len(cursor_decode(ty, input).rest) > 1

\* a Result, directly or beneath Option wrappers
RECURSIVE ResultUnderOptions(_)
ResultUnderOptions(t) ==
    IF t.k = "res" THEN TRUE
    ELSE IF t.k = "opt" THEN ResultUnderOptions(t.c[1])
    ELSE FALSE

\* the Err payload type of such a destination
RECURSIVE ErrTypeOf(_)
ErrTypeOf(t) == IF t.k = "res" THEN t.c[2] ELSE ErrTypeOf(t.c[1])

\* the Err arm holding `message`, beneath the Some of every Option wrapper
RECURSIVE ErrValueAt(_, _)
ErrValueAt(t, message) ==
    IF t.k = "opt" THEN VSome(ErrValueAt(t.c[1], message))
    ELSE VErr(IF t.c[2].k = "str" THEN VStr(message) ELSE VBytes(message))

C9_PlainOk ==
    pc = "decoded" /\ ty.k = "res" /\ Len(input) >= 5
        /\ Take(input, 5) = <<"+", "O", "K", CR, LF>> =>
        /\ ty.c[1] = TUnit => deres.ok /\ deres.v = VOk(VUnit)
        /\ ty.c[1] = TStr => deres.ok /\ deres.v = VOk(VStr(<<"O", "K">>))
        /\ ty.c[1] = TBytes => deres.ok /\ deres.v = VOk(VBytes(<<"O", "K">>))
        /\ ty.c[1] \in {TUnit, TStr, TBytes} => cursor = Drop(input, 5)

C9_Witness ==
    /\ pc = "decoded" /\ ty = TRes(TUnit, TStr) /\ input = <<"+", "O", "K", CR, LF>>
    /\ deres.ok /\ deres.v = VOk(VUnit) /\ cursor = NoBytes

\* the header the wrapper type ty2 does not forward to the inner decode
Intercepted(header) ==
    IF ty2.k = "opt" THEN header = Null
    ELSE header = SimpleString(<<"O", "K">>) \/ header.t = "Error"

\* C10: when the first header of the input is not one the wrapper keeps for
\* itself (Null for Option; +OK or an Error line for Result), decoding at
\* Option<T> / Result<T, E> gives Some(v) / Ok(v) for the v that decoding the
\* same input at T gives, fails with the same error when that fails, ends
\* on the same cursor position, and parses as many headers from the bytes:
\* the first header once, and only it unless it opens an array.
C10_WrapperTransparency ==
    pc = "wrapped" /\ ~(FirstHeader.ok /\ Intercepted(FirstHeader.h)) =>
        /\ wrapres.ok = deres.ok
        /\ deres.ok => wrapres.v = (IF ty2.k = "opt" THEN VSome(deres.v) ELSE VOk(deres.v))
        /\ wrapres.e = deres.e
        /\ wrapres.rest = deres.rest
        /\ wrapres.reads = deres.reads
        /\ FirstHeader.h.t # "Array" => wrapres.reads = 1

C10_Witness ==
    /\ pc = "wrapped" /\ ty2 = TRes(TVec(TInt), TStr)
    /\ wrapres.ok /\ wrapres.v = VOk(VSeq(<<VInt(7)>>)) /\ wrapres.reads = 2
    /\ deres.v = VSeq(<<VInt(7)>>) /\ cursor = NoBytes

-----------------------------------------------------------------------------
(* Properties of the decoding caller (SpecDecode) *)

\* the bytes s start with the bytes p
StartsWith(s, p) == Len(s) >= Len(p) /\ SubSeq(s, 1, Len(p)) = p

\* the bytes behind a header start with n payload bytes and a CR LF
HasBody(rest, n) == Len(rest) >= n + 2 /\ rest[n + 1] = CR /\ rest[n + 2] = LF

\* what the decode of a BulkString(n) header followed by `rest` must be
BulkLengthChecked(n, rest) ==
    /\ (n > MAX_BULK_LENGTH \/ n < 0) =>
        ~deres.ok /\ deres.e = Length /\ deres.reads = 1 /\ cursor = rest
    /\ (n >= 0 /\ n <= MAX_BULK_LENGTH) =>
        /\ deres.e # Length
        /\ (~HasBody(rest, n) /\ Len(rest) < n) =>
            ~deres.ok /\ deres.e = UnexpectedEof(n - Len(rest) + 2) /\ cursor = rest
        /\ (HasBody(rest, n) /\ ty \in {TBytes, TData}) =>
            deres.ok /\ deres.v = VBytes(Take(rest, n)) /\ cursor = Drop(rest, n + 2)
        /\ (HasBody(rest, n) /\ ty = TStr) =>
            deres.ok /\ deres.v = VStr(Take(rest, n)) /\ cursor = Drop(rest, n + 2)

\* C11: a '$' header declaring N, 0 <= N <= 536,870,912, followed by N
\* arbitrary bytes (CR and LF among them) and CR LF decodes to exactly these N
\* bytes and leaves the cursor behind the terminator; a declared length of
\* 536,870,913 or more, or a negative one other than -1, fails with Length
\* with the cursor still right behind the header line, whatever the
\* destination type; 536,870,912 itself is accepted (the decode then waits
\* for the payload).
C11_BulkLength ==
    (mode = "decode" /\ pc = "decoded" /\ FirstHeader.ok /\ FirstHeader.h.t = "BulkString")
        => BulkLengthChecked(FirstHeader.h.n, FirstHeader.rest)

C11_Witness ==
    /\ mode = "decode" /\ pc = "decoded" /\ ty = TBytes
    /\ FirstHeader.h = BulkString(2)
    /\ deres.ok /\ deres.v = VBytes(<<CR, LF>>) /\ cursor = <<":", "1", CR, LF>>

ArrayCountChecked(n, rest) ==
    /\ n < 0 => (~deres.ok /\ deres.e = Length /\ deres.reads = 1 /\ cursor = rest)
    /\ n > MAX_BULK_LENGTH =>
        /\ ~deres.ok /\ deres.e # Length
        /\ ty.k \in {"vec", "data", "tuple"} => deres.reads >= 2
        /\ (ty.k \in {"vec", "data"} /\ rest = NoBytes) => deres.e.k = "UnexpectedEof"

SpellsMinusOne(payload) ==
    /\ Len(payload) >= 2 /\ payload[1] = "-" /\ payload[Len(payload)] = "1"
    /\ \A i \in 2..(Len(payload) - 1) : payload[i] = "0"

\* the buffer starts with a complete '$' or '*' header line spelling -1,
\* whose payload ends before position idx of the bytes behind the tag
NullLine(inp, idx) ==
    /\ inp # NoBytes /\ Head(inp) \in {"$", "*"}
    /\ idx # 0 /\ SpellsMinusOne(Take(Tail(inp), idx - 1))
    /\ StartsWith(Drop(Tail(inp), idx - 1), <<CR, LF>>)

\* what read_header and the decode make of a Null line of idx + 2 bytes
NullDecoded(idx) ==
    /\ FirstHeader.ok /\ FirstHeader.h = Null /\ FirstHeader.rest = Drop(input, idx + 2)
    /\ ty \in {TUnit, TData} =>
        (deres.ok /\ deres.v = VUnit /\ deres.reads = 1 /\ cursor = Drop(input, idx + 2))
    /\ ty.k = "opt" =>
        (deres.ok /\ deres.v = VNone /\ deres.reads = 1 /\ cursor = Drop(input, idx + 2))

\* C13: read_header maps every '$' or '*' header whose payload spells -1
\* (-1, -01, -001) to the Null header; decoded through deserialize_any it is
\* unit, decoded as an option it is absent, and the cursor is left right
\* behind the header line.
C13_NullCanonical ==
    (mode = "decode" /\ pc = "decoded" /\ NullLine(input, memchr2(CR, LF, Tail(input))))
        => NullDecoded(memchr2(CR, LF, Tail(input)))

C13_Witness ==
    /\ mode = "decode" /\ pc = "decoded" /\ ty = TOpt(TData)
    /\ input = <<"*", "-", "0", "0", "1", CR, LF, ":", "1", CR, LF>>
    /\ deres.ok /\ deres.v = VNone /\ cursor = <<":", "1", CR, LF>>

-----------------------------------------------------------------------------
(* Properties of the leaf-parser caller (SpecParse) *)

\* the number of ASCII digits in a payload
DigitCount(payload) ==
    Cardinality({i \in 1..Len(payload) : \E d \in 1..10 : DigitBytes[d] = payload[i]})

\* the buffer is the header line of a number-carrying tag with the given
\* payload and a CR LF
NumberLine(inp, payload) ==
    \E tag \in {":", "$", "*"} : inp = <<tag>> \o payload \o <<CR, LF>>

\* C14: parse_number fails with Number for every payload without a digit,
\* the empty payload and a lone sign alike, and so read_header rejects the
\* header lines ":-", "$+" and "*-" with Number.
C14_NeedsADigit ==
    /\ (mode = "parse" /\ pc = "number" /\ DigitCount(input) = 0) => ~numres.ok
    /\ (mode = "parse" /\ pc = "header"
            /\ \E sign \in {<< >>, <<"+">>, <<"-">>} : NumberLine(input, sign))
        => (~leaf.ok /\ leaf.e = NumberError)

\* the payload without its optional sign, and whether the sign is a minus
Unsigned(payload) ==
    IF payload # NoBytes /\ Head(payload) \in {"+", "-"} THEN Tail(payload) ELSE payload
IsNegative(payload) == payload # NoBytes /\ Head(payload) = "-"

DigitsOnly(ds) == DigitCount(ds) = Len(ds)
DigitIndex(b) == CHOOSE d \in 0..9 : DigitBytes[d + 1] = b

\* a digit run without its leading zeros (one zero is kept)
RECURSIVE StripZeros(_)
StripZeros(ds) == IF Len(ds) > 1 /\ Head(ds) = "0" THEN StripZeros(Tail(ds)) ELSE ds

\* a <= b for two digit runs without leading zeros, compared as texts
RECURSIVE LexLeq(_, _)
LexLeq(a, b) ==
    \/ a = NoBytes
    \/ DigitIndex(Head(a)) < DigitIndex(Head(b))
    \/ (Head(a) = Head(b) /\ LexLeq(Tail(a), Tail(b)))
TextLeq(a, b) == Len(a) < Len(b) \/ (Len(a) = Len(b) /\ LexLeq(a, b))

\* the largest magnitude of the integer width on either side of zero
Magnitude(negative) == IF negative THEN Tail(FormatI64(I64_MIN)) ELSE FormatI64(I64_MAX)

\* the decimal text of the value a signed digit run denotes
Denoted(negative, ds) ==
    IF negative /\ ds # <<"0">> THEN <<"-">> \o ds ELSE ds

\* what parse_number must make of an optionally signed payload `ds`
NumberExact(negative, ds) ==
    /\ numres.ok <=> (DigitsOnly(ds) /\ TextLeq(StripZeros(ds), Magnitude(negative)))
    /\ numres.ok => FormatI64(numres.n) = Denoted(negative, StripZeros(ds))

\* C15: parse_number is exact over the integer range: an optionally signed
\* digit run (leading zeros allowed) whose value lies between the minimum
\* and the maximum, both included, parses to that value; a digit run outside
\* the range and a payload with a non-digit byte behind the optional sign
\* fail; no result is a wrapped value.
C15_NumberExact ==
    (mode = "parse" /\ pc = "number" /\ Unsigned(input) # NoBytes)
        => NumberExact(IsNegative(input), Unsigned(input))

C15_Witness ==
    /\ mode = "parse" /\ pc = "number"
    /\ input = FormatI64(I64_MIN)
    /\ numres.ok /\ numres.n = I64_MIN

\* the first byte of a non-empty buffer is none of the five RESP tags
UnknownTag(inp) == inp # NoBytes /\ Head(inp) \notin {"+", "-", ":", "$", "*"}

\* C16 as stated: read_header fails with BadTag(b) for every non-empty
\* input whose first byte b is no RESP tag, whatever bytes follow.
C16_BadTagFirst ==
    (mode = "parse" /\ pc = "header" /\ UnknownTag(input))
        => (~leaf.ok /\ leaf.e = BadTag(Head(input)))

\* what read_header must report for an unknown tag byte b followed by
\* `after`, whose first CR or LF is at idx (0 when there is none)
BadTagAfterLine(b, after, idx) ==
    /\ ~leaf.ok /\ cursor = input
    /\ leaf.e = IF idx = 0 THEN UnexpectedEof(2)
                ELSE IF Drop(after, idx - 1) = <<CR>> THEN UnexpectedEof(1)
                ELSE IF StartsWith(Drop(after, idx - 1), <<CR, LF>>) THEN BadTag(b)
                ELSE MalformedNewline

\* C16: read_header looks at the tag byte only after it has read the whole
\* header line: for a first byte b that is no RESP tag it fails with
\* BadTag(b) when the line is terminated by CR LF, with UnexpectedEof(2) when
\* no CR or LF follows yet, with UnexpectedEof(1) when the input ends
\* behind the CR, and with MalformedNewline when the first CR or LF does not
\* start a CR LF.
C16_BadTag ==
    (mode = "parse" /\ pc = "header" /\ UnknownTag(input))
        => BadTagAfterLine(Head(input), Tail(input), memchr2(CR, LF, Tail(input)))

C16_Witness ==
    /\ mode = "parse" /\ pc = "header"
    /\ input = <<"x", "1", CR, LF, "a">>
    /\ ~leaf.ok /\ leaf.e = BadTag("x") /\ cursor = input

\* the count read_header must report for a header that has not arrived
\* whole: `after` are the bytes behind the tag, idx the place of their first
\* CR or LF (0 when there is none)
IncompleteHeader(after, idx, n) ==
    \/ n = 2 /\ idx = 0
    \/ n = 1 /\ idx # 0 /\ Drop(after, idx - 1) = <<CR>>

\* C17: read_header reports UnexpectedEof(3) for an empty buffer,
\* UnexpectedEof(2) when a tag byte is there but no CR or LF byte follows
\* it, and UnexpectedEof(1) when the buffer ends right behind the CR of the
\* header line; the input is left unconsumed in all three cases.
C17_IncompleteHeader ==
    /\ (mode = "parse" /\ pc = "header" /\ input = NoBytes)
        => (~leaf.ok /\ leaf.e = UnexpectedEof(3) /\ cursor = input)
    /\ \A n \in {1, 2} :
        (mode = "parse" /\ pc = "header" /\ input # NoBytes
            /\ IncompleteHeader(Tail(input), memchr2(CR, LF, Tail(input)), n))
        => (~leaf.ok /\ leaf.e = UnexpectedEof(n) /\ cursor = input)

C17_Witness ==
    /\ mode = "parse" /\ pc = "header"
    /\ input = <<"+", "O", "K", CR>>
    /\ ~leaf.ok /\ leaf.e = UnexpectedEof(1) /\ cursor = input

\* length - available + 2, saturating at the largest count
MissingBytes(len, available) ==
    IF len - available > I64_MAX - 2 THEN I64_MAX ELSE len - available + 2

\* what read_exact must report when `len` bytes are there and `rest` follows
TerminatorChecked(len, rest) ==
    IF rest = NoBytes THEN ~leaf.ok /\ leaf.e = UnexpectedEof(2) /\ cursor = input
    ELSE IF rest = <<CR>> THEN ~leaf.ok /\ leaf.e = UnexpectedEof(1) /\ cursor = input
    ELSE IF StartsWith(rest, <<CR, LF>>) THEN
        leaf.ok /\ leaf.p = SubSeq(input, 1, len) /\ cursor = Drop(rest, 2)
    ELSE ~leaf.ok /\ leaf.e = MalformedNewline /\ cursor = input

\* C18: read_exact(length, bytes) returns the first `length` bytes and the
\* remainder behind the CR LF that follows them; with fewer than `length`
\* bytes it fails with UnexpectedEof(length - available + 2), saturating;
\* with `length` bytes and an absent or partial terminator it fails with
\* UnexpectedEof(2) or UnexpectedEof(1); with other bytes in the place of the
\* terminator it fails with MalformedNewline.
C18_ReadExact ==
    /\ (mode = "parse" /\ pc = "exact" /\ Len(input) < exactLen)
        => (~leaf.ok /\ leaf.e = UnexpectedEof(MissingBytes(exactLen, Len(input)))
            /\ cursor = input)
    /\ (mode = "parse" /\ pc = "exact" /\ Len(input) >= exactLen)
        => TerminatorChecked(exactLen, Drop(input, exactLen))

C18_Witness ==
    /\ mode = "parse" /\ pc = "exact" /\ exactLen = 2
    /\ input = <<CR, LF, CR, LF, "a">>
    /\ leaf.ok /\ leaf.p = <<CR, LF>> /\ cursor = <<"a">>

-----------------------------------------------------------------------------
(* Properties of arrays and booleans under the decoding caller (SpecDecode) *)

\* the elements i..k of a sequence destination t decoded one after the
\* other from `rest`, each where the one before stopped; `i` is the element
\* that failed, if one did
RECURSIVE DecodeElems(_, _, _, _, _)
RECURSIVE StepElems(_, _, _, _, _)
DecodeElems(t, i, k, acc, rest) ==
    IF i > k THEN [ok |-> TRUE, vs |-> acc, rest |-> rest, i |-> i, e |-> NoError]
    ELSE StepElems(t, i, k, acc, cursor_decode(ElementType(t, i), rest))
StepElems(t, i, k, acc, el) ==
    IF ~el.ok THEN [ok |-> FALSE, vs |-> acc, rest |-> el.rest, i |-> i, e |-> el.e]
    ELSE DecodeElems(t, i + 1, k, Append(acc, el.v), el.rest)

\* the number of elements the visitor of t takes from an array of count c
Wanted(t, c) == IF t.k = "tuple" /\ Len(t.c) < c THEN Len(t.c) ELSE c

\* what the decode of an array of count c must be when `r` is the result of
\* decoding the elements the destination takes
ArrayAccounted(c, r) ==
    /\ cursor = r.rest
    /\ (~r.ok /\ r.e.k = "UnexpectedEof") =>
        (~deres.ok /\ deres.e = UnexpectedEof(r.e.n + 3 * (c - r.i) + 2))
    /\ (~r.ok /\ r.e.k # "UnexpectedEof") => (~deres.ok /\ deres.e = r.e)
    /\ (r.ok /\ ty.k \in {"vec", "data"}) =>
        (deres.ok /\ deres.v = VSeq(r.vs) /\ Len(r.vs) = c)
    /\ (r.ok /\ ty.k = "tuple" /\ Len(ty.c) = c) => (deres.ok /\ deres.v = VTuple(r.vs))
    /\ (r.ok /\ ty.k = "tuple" /\ Len(ty.c) < c) => (~deres.ok /\ deres.e = UnfinishedArray)
    /\ (r.ok /\ ty.k = "tuple" /\ Len(ty.c) > c) => (~deres.ok /\ deres.e = Custom)

\* C19: an array of declared count c hands the destination one element per
\* request, each decoded from the shared cursor where the one before
\* stopped, and counts the requests down (an UnexpectedEof from element i is
\* enlarged by 3 bytes for each of the c - i elements not yet requested);
\* with the count at zero a further request is answered "no more elements"
\* and the cursor stays; the decode succeeds, with exactly c elements, only
\* if the destination took all c, and fails with UnfinishedArray if it
\* stopped early.
C19_ElementAccounting ==
    (mode = "decode" /\ pc = "decoded" /\ ty.k \in {"vec", "data", "tuple"}
        /\ FirstHeader.ok /\ FirstHeader.h.t = "Array"
        /\ FirstHeader.h.n >= 0 /\ FirstHeader.h.n <= MaxWireItems + 1)
        => ArrayAccounted(FirstHeader.h.n,
                DecodeElems(ty, 1, Wanted(ty, FirstHeader.h.n), << >>, FirstHeader.rest))

C19_Witness ==
    /\ mode = "decode" /\ pc = "decoded" /\ ty = TTuple(<<TInt>>)
    /\ input = <<"*", "2", CR, LF, ":", "1", CR, LF, ":", "1", CR, LF>>
    /\ ~deres.ok /\ deres.e = UnfinishedArray /\ cursor = <<":", "1", CR, LF>>

\* what deserialize_bool must do with a header Integer(n) followed by `rest`
BoolFromInteger(n, rest) ==
    /\ (n \in {0, 1} /\ ty = TBool) =>
        (wrapres.ok /\ wrapres.v = VBool(n = 1) /\ cursor = rest)
    /\ (n \in {0, 1} /\ ty # TBool) => (~wrapres.ok /\ wrapres.e = Custom)
    /\ n \notin {0, 1} => wrapres = deres
    /\ ty \in {TInt, TData} => (deres.ok /\ deres.v = VInt(n))

\* C20: deserialize_bool turns an Integer header of exactly 0 into
\* visit_bool(false) and of exactly 1 into visit_bool(true); every other
\* integer and every other header (bytes, unit, sequence, and the errors)
\* reaches the visitor as deserialize_any would have it; a destination that
\* asks for an integer or for any value gets ":0" and ":1" as the integers
\* 0 and 1, and a boolean destination decodes them as false and true.
C20_BoolDecode ==
    /\ (mode = "decode" /\ pc = "asbool" /\ FirstHeader.ok /\ FirstHeader.h.t = "Integer")
        => BoolFromInteger(FirstHeader.h.n, FirstHeader.rest)
    /\ (mode = "decode" /\ pc = "asbool" /\ ~(FirstHeader.ok /\ FirstHeader.h.t = "Integer"))
        => wrapres = deres
    /\ (mode = "decode" /\ pc = "decoded" /\ FirstHeader.ok /\ FirstHeader.h.t = "Integer"
            /\ FirstHeader.h.n \in {0, 1}) =>
        /\ ty \in {TInt, TData} => (deres.ok /\ deres.v = VInt(FirstHeader.h.n))
        /\ ty = TBool => (deres.ok /\ deres.v = VBool(FirstHeader.h.n = 1))

C20_Witness ==
    /\ mode = "decode" /\ pc = "asbool" /\ ty = TBool
    /\ FirstHeader.h = Integer(1)
    /\ wrapres.ok /\ wrapres.v = VBool(TRUE) /\ cursor = FirstHeader.rest
    /\ ~deres.ok

-----------------------------------------------------------------------------
(* Properties of the encoding caller (SpecEncode) *)

\* what the last serialize call added to the sink
Written == SubSeq(out, Len(before) + 1, Len(out))

\* the value of a digit run, negated (so that the minimum is reached)
RECURSIVE NegatedValue(_, _)
NegatedValue(ds, acc) ==
    IF ds = NoBytes THEN acc
    ELSE NegatedValue(Tail(ds), acc * 10 - DigitIndex(Head(ds)))

\* t is the decimal text of n: an optional '-', then digits without a
\* leading zero, denoting n
DecimalText(t, n) ==
    /\ Unsigned(t) # NoBytes /\ DigitsOnly(Unsigned(t))
    /\ StripZeros(Unsigned(t)) = Unsigned(t)
    /\ Head(t) # "+"
    /\ IsNegative(t) <=> n < 0
    /\ n = IF IsNegative(t) THEN NegatedValue(Unsigned(t), 0)
           ELSE -NegatedValue(Unsigned(t), 0)

\* the call added ':', the decimal text of n, and CR LF
IntegerWritten(w, n) ==
    /\ serres.ok /\ StartsWith(out, before)
    /\ Len(w) >= 4 /\ w[1] = ":" /\ w[Len(w) - 1] = CR /\ w[Len(w)] = LF
    /\ DecimalText(SubSeq(w, 2, Len(w) - 2), n)

\* C21: a boolean is written as ":1\r\n" or ":0\r\n"; an integer of any width
\* whose value fits the signed 64-bit range is written as ':' followed by its
\* decimal text and "\r\n"; a wider integer outside that range fails with
\* NumberOutOfRange and nothing is written to the sink.
C21_IntegerEncode ==
    (mode = "encode" /\ pc = "serialized") =>
        /\ val = VBool(TRUE) => (serres.ok /\ out = before \o <<":", "1", CR, LF>>)
        /\ val = VBool(FALSE) => (serres.ok /\ out = before \o <<":", "0", CR, LF>>)
        /\ (val.k = "int" \/ (val.k = "wide" /\ val.b = NoBytes)) =>
            IntegerWritten(Written, val.n)
        /\ (val.k = "wide" /\ val.b # NoBytes) =>
            (~serres.ok /\ serres.e.k = "NumberOutOfRange" /\ out = before)

C21_Witness ==
    /\ mode = "encode" /\ pc = "serialized"
    /\ val.k = "wide" /\ val.b # NoBytes /\ before # NoBytes
    /\ ~serres.ok /\ out = before

\* a value built from units, Some / newtype-struct wrappers, Ok arms and
\* sequences only
RECURSIVE UnitShaped(_)
UnitShaped(v) ==
    \/ v.k = "unit"
    \/ v.k \in {"some", "newtype", "ok"} /\ UnitShaped(v.c[1])
    \/ v.k \in {"seq", "tuple"} /\ \A i \in 1..Len(v.c) : UnitShaped(v.c[i])

\* the bytes such a value is to be written as: a unit directly under an Ok
\* arm is "+OK", any other unit is "$-1", every element starts over
RECURSIVE UnitBytes(_, _)
RECURSIVE UnitElementBytes(_, _)
UnitElementBytes(vs, i) ==
    IF i > Len(vs) THEN NoBytes
    ELSE UnitBytes(vs[i], FALSE) \o UnitElementBytes(vs, i + 1)
UnitBytes(v, underOk) ==
    CASE v.k = "unit" ->
            IF underOk THEN <<"+", "O", "K", CR, LF>> ELSE <<"$", "-", "1", CR, LF>>
      [] v.k \in {"some", "newtype"} -> UnitBytes(v.c[1], underOk)
      [] v.k = "ok" -> UnitBytes(v.c[1], TRUE)
      [] OTHER -> <<"*", DigitBytes[Len(v.c) + 1], CR, LF>> \o UnitElementBytes(v.c, 1)

\* C22: the unit encoding is selected by the active serializer mode only: a
\* unit is "$-1\r\n" in the default mode and "+OK\r\n" directly under an Ok
\* arm, also through Some and newtype-struct wrappers; every element of a
\* sequence is encoded in the default mode again, so a unit element of a
\* sequence under an Ok arm is "$-1\r\n".
C22_UnitMode ==
    (mode = "encode" /\ pc = "serialized" /\ UnitShaped(val)) =>
        (serres.ok /\ out = before \o UnitBytes(val, FALSE))

C22_Witness ==
    /\ mode = "encode" /\ pc = "serialized"
    /\ val = VOk(VSeq(<<VUnit, VOk(VUnit)>>))
    /\ out = before \o <<"*", "2", CR, LF, "$", "-", "1", CR, LF, "+", "O", "K", CR, LF>>

\* the bulk string "$<len>\r\n<name>\r\n" of a short name
NameAsBulk(name) == <<"$", DigitBytes[Len(name) + 1], CR, LF>> \o name \o <<CR, LF>>

\* C23 (as stated): a named unit-like tag, an enum case with no data and a
\* struct with no fields alike, is written as a BulkString whose payload is
\* the tag's name.
C23_NamedTagsAreBulk ==
    (mode = "encode" /\ pc = "serialized" /\ val.k \in {"unit_struct", "unit_variant"}) =>
        (serres.ok /\ out = before \o NameAsBulk(val.b))

\* how a value carrying a named unit-like tag is to be written
NamedTagWritten(v, underOk) ==
    /\ v.k = "unit_variant" => (serres.ok /\ out = before \o NameAsBulk(v.b))
    /\ v.k = "unit_struct" =>
        /\ serres.ok
        /\ out = before \o (IF underOk THEN <<"+", "O", "K", CR, LF>>
                            ELSE <<"$", "-", "1", CR, LF>>)

\* C23: an enum case with no data is written as a BulkString whose payload
\* is the case's name, in either mode; a struct with no fields is written as
\* a unit is, "$-1\r\n" in the default mode and "+OK\r\n" under an Ok arm,
\* and its name appears nowhere; under an Err arm either one is written as
\* the error line "-<name>\r\n".
C23_NamedUnitTags ==
    (mode = "encode" /\ pc = "serialized") =>
        /\ NamedTagWritten(val, FALSE)
        /\ val.k = "ok" => NamedTagWritten(val.c[1], TRUE)
        /\ (val.k = "err" /\ val.c[1].k \in {"unit_struct", "unit_variant"}) =>
            (serres.ok /\ out = before \o <<"-">> \o val.c[1].b \o <<CR, LF>>)

C23_Witness ==
    /\ mode = "encode" /\ pc = "serialized"
    /\ val = VUnitStruct(<<"S">>) /\ before # NoBytes
    /\ out = before \o <<"$", "-", "1", CR, LF>>

\* the length the Serialize impl declared for its sequence
Declared(v) == IF v.k = "hinted" THEN v.n ELSE Len(v.c)

\* the encodings of the first k elements, one after the other
RECURSIVE ElementBytes(_, _)
ElementBytes(vs, k) ==
    IF k = 0 THEN NoBytes ELSE ElementBytes(vs, k - 1) \o Encoded(vs[k])

\* the sink holds what it held, "*N\r\n", and the first k elements
HoldsElements(n, k) ==
    out = before \o <<"*", DigitBytes[n + 1], CR, LF>> \o ElementBytes(val.c, k)

\* C24: for a declared length N the encoder writes "*N\r\n" and then the
\* elements in order; at every point the elements written so far and the
\* remaining counter add up to N; an (N+1)-th element fails with
\* BadSeqLength before any byte of it is written, ending with fewer than N
\* elements written fails with BadSeqLength, and on success exactly N
\* elements follow the header.  Handing the value over in one call gives the
\* same result as the calls one by one.
C24_KnownLength ==
    mode = "encode" =>
        /\ pc = "elements" =>
            /\ emitted + seqser.remaining = Declared(val)
            /\ HoldsElements(Declared(val), emitted)
        /\ pc = "ended" =>
            /\ serres.ok /\ emitted = Declared(val) /\ Len(val.c) = Declared(val)
            /\ HoldsElements(Declared(val), Declared(val))
        /\ (pc = "failed" /\ Declared(val) >= 0 /\ emitted = Declared(val)
                /\ Len(val.c) > Declared(val)) =>
            /\ ~serres.ok /\ serres.e.k = "BadSeqLength"
            /\ HoldsElements(Declared(val), Declared(val))
        /\ (pc = "failed" /\ emitted = Len(val.c) /\ Len(val.c) < Declared(val)) =>
            /\ ~serres.ok /\ serres.e.k = "BadSeqLength"
            /\ HoldsElements(Declared(val), emitted)
        /\ pc \in {"ended", "failed"} => serres = to_output(val, before)

C24_Witness ==
    /\ mode = "encode" /\ pc = "failed"
    /\ val.k = "hinted" /\ val.n >= 1 /\ emitted = val.n /\ Len(val.c) > val.n
    /\ serres.e.k = "BadSeqLength"

\* the payload of an Err arm behind its newtype-struct wrappers
RECURSIVE Unwrapped(_)
Unwrapped(v) == IF v.k = "newtype" THEN Unwrapped(v.c[1]) ELSE v

\* what an Err arm with the payload p must have done to the sink
ErrArmWritten(p) ==
    /\ (p.k \in {"str", "bytes", "unit_struct", "unit_variant"}
            /\ \A i \in 1..Len(p.b) : p.b[i] \notin {CR, LF}
            /\ (sink = "Vec" \/ from_utf8(p.b))) =>
        (serres.ok /\ out = before \o <<"-">> \o p.b \o <<CR, LF>>)
    /\ (p.k \in {"str", "bytes"} /\ \E i \in 1..Len(p.b) : p.b[i] \in {CR, LF}) =>
        (~serres.ok /\ serres.e.k = "BadSimpleString" /\ out = before)
    /\ p.k \notin {"str", "bytes", "unit_struct", "unit_variant"} =>
        (~serres.ok /\ serres.e.k = "InvalidErrorPayload" /\ out = before)

\* C25: for every text or byte string S without a CR or LF byte (that the
\* sink can hold) encoding Err(S) writes exactly "-" + S + "\r\n"; an Err
\* payload with a CR or LF byte fails with BadSimpleString; an Err payload
\* that is not text, bytes or a named unit-like tag (an integer, a sequence,
\* an option, a unit, ...) fails with InvalidErrorPayload.
C25_ErrArm ==
    (mode = "encode" /\ pc = "serialized" /\ val.k = "err") =>
        ErrArmWritten(Unwrapped(val.c[1]))

C25_Witness ==
    /\ mode = "encode" /\ pc = "serialized"
    /\ val = VErr(VStr(<<"a", CR>>)) /\ before # NoBytes
    /\ serres.e.k = "BadSimpleString" /\ out = before

\* the errors the Serializer raises before it writes anything for a value
EarlyErrors == {"UnknownSeqLength", "BadSimpleString", "NumberOutOfRange", "UnsupportedType"}

\* the value behind its Some / newtype-struct / Ok wrappers is a sequence
RECURSIVE IsSequence(_)
IsSequence(v) ==
    \/ v.k \in {"seq", "tuple", "hinted"}
    \/ v.k \in {"some", "newtype", "ok"} /\ IsSequence(v.c[1])

\* a failed top-level encode of anything but a sequence with one of the
\* early errors, and the refusal of a sequence without a length, leave the
\* sink as it was
EarlyErrorsWriteNothing ==
    (mode = "encode" /\ pc = "serialized" /\ ~serres.ok /\ serres.e.k \in EarlyErrors
        /\ (~IsSequence(val) \/ serres.e.k = "UnknownSeqLength"))
    => out = before

\* C30 (as stated): errors detected before emission leave the sink
\* unchanged, and a failed encode leaves a partial prefix in the sink only
\* behind an array header or a bulk-string header.
C30_PrefixOnlyAfterHeader ==
    /\ EarlyErrorsWriteNothing
    /\ (mode = "encode" /\ pc = "serialized" /\ ~serres.ok /\ out # before) =>
        (StartsWith(out, before) /\ Written[1] \in {"*", "$"})

\* C30: errors detected before emission leave the sink unchanged; a failed
\* encode leaves a partial prefix in the sink behind an array header (a
\* failing element, a wrong element count), and, when the sink itself
\* refuses the payload bytes, behind a bulk-string header or behind the '-'
\* of an Err arm.
C30_EarlyErrors ==
    /\ EarlyErrorsWriteNothing
    /\ (mode = "encode" /\ pc = "serialized" /\ ~serres.ok /\ out # before) =>
        /\ StartsWith(out, before)
        /\ \/ Written[1] = "*" /\ IsSequence(val)
           \/ Written[1] = "$" /\ serres.e.k = "Utf8Encode" /\ sink = "String"
           \/ Written = <<"-">> /\ serres.e.k = "Utf8Encode" /\ sink = "String"

C30_Witness ==
    /\ mode = "encode" /\ pc = "serialized" /\ sink = "String"
    /\ val = VErr(VBytes(<<NonUtf8>>))
    /\ ~serres.ok /\ serres.e.k = "Utf8Encode" /\ out = before \o <<"-">>

-----------------------------------------------------------------------------
(* Further properties of the leaf-parser caller (SpecParse) *)

\* C28: for every input, read_header with its five-byte fast path ("+OK\r\n"
\* and "$-1\r\n" recognised by direct comparison) returns the same header
\* and the same remainder, or the same error, as the general path (tag byte,
\* payload up to the first CR or LF, terminator check, number parse) returns
\* without the fast path.
C28_FastPath ==
    (mode = "parse" /\ pc = "header") =>
        leaf = apply_parser(input, read_header_general(input))

C28_Witness ==
    /\ mode = "parse" /\ pc = "header"
    /\ input = <<"$", "-", "1", CR, LF, "a">>
    /\ leaf.ok /\ leaf.h = Null /\ leaf.rest = <<"a">>

-----------------------------------------------------------------------------
(* Further properties of the decoding caller (SpecDecode) *)

\* n + 3 * r + 2, held at the largest count
Enlarged(n, r) == IF r > (I64_MAX - 2 - n) \div 3 THEN I64_MAX ELSE n + 3 * r + 2

\* what the decode of an array of count c reports when `r` is the failed
\* result of decoding its elements one by one
FailureEnlarged(c, r) ==
    /\ (~r.ok /\ r.e.k = "UnexpectedEof") =>
        (~deres.ok /\ deres.e = UnexpectedEof(Enlarged(r.e.n, c - r.i)))
    /\ (~r.ok /\ r.e.k # "UnexpectedEof") => (~deres.ok /\ deres.e = r.e)

\* k integer items ":1\r\n"
RECURSIVE Ones(_)
Ones(k) == IF k = 0 THEN NoBytes ELSE <<":", "1", CR, LF>> \o Ones(k - 1)

\* an array of count c whose first element is an array of count d with only
\* k < d integer elements present: the inner array misses 3 bytes of an
\* element's header and enlarges them for its d - k - 1 further elements,
\* the outer array enlarges that count for its c - 1 further elements
NestedEnlarged(c, inner) ==
    (inner.ok /\ inner.h.t = "Array" /\ inner.h.n >= 1 /\ Len(inner.rest) < 4 * inner.h.n
        /\ inner.rest = Ones(Len(inner.rest) \div 4) /\ c >= 1) =>
    (~deres.ok /\ deres.e =
        UnexpectedEof(Enlarged(Enlarged(3, inner.h.n - (Len(inner.rest) \div 4) - 1), c - 1)))

\* C27: when an element decode inside an array fails with UnexpectedEof(n)
\* while r declared elements have not yet been requested (the failing one
\* not counted), the array decode reports UnexpectedEof(n + 3 * r + 2),
\* saturating; for nested arrays every enclosing level applies the
\* enlargement once to the count coming from the level below; every other
\* error is propagated unchanged.
C27_EofEnlargement ==
    (mode = "decode" /\ pc = "decoded" /\ FirstHeader.ok /\ FirstHeader.h.t = "Array"
        /\ FirstHeader.h.n >= 0)
    => /\ ty.k \in {"vec", "data", "tuple"} =>
            FailureEnlarged(FirstHeader.h.n,
                DecodeElems(ty, 1, Wanted(ty, FirstHeader.h.n), << >>, FirstHeader.rest))
       /\ ty \in {TData, TVec(TData), TVec(TVec(TInt))} =>
            NestedEnlarged(FirstHeader.h.n, read_header(FirstHeader.rest))

C27_Witness ==
    /\ mode = "decode" /\ pc = "decoded" /\ ty = TVec(TVec(TInt))
    /\ input = <<"*", "2", CR, LF, "*", "2", CR, LF, ":", "1", CR, LF>>
    /\ ~deres.ok /\ deres.e = UnexpectedEof(10)

\* the positions the leaf parsers stop at when they are run on inp one
\* after the other, a header line each time and the payload behind the
\* header of a bulk string (`due` is its length, -1 when a header is due)
RECURSIVE LeafStops(_, _)
RECURSIVE LeafStopsAfter(_, _, _)
LeafStops(inp, due) ==
    IF due < 0 THEN LeafStopsAfter(inp, due, read_header(inp))
    ELSE LeafStopsAfter(inp, due, read_exact(due, inp))
LeafStopsAfter(inp, due, parsed) ==
    IF ~parsed.ok THEN {inp}
    ELSE IF due < 0 /\ parsed.h.t = "BulkString" /\ parsed.h.n >= 0
                /\ parsed.h.n <= MAX_BULK_LENGTH
         THEN {inp} \cup LeafStops(parsed.rest, parsed.h.n)
    ELSE {inp} \cup LeafStops(parsed.rest, -1)

\* a failed decode of an array whose element r.i failed: where that
\* element began, and where the decode of that element alone stops
ElementBegin(c, r) == DecodeElems(ty, 1, r.i - 1, << >>, FirstHeader.rest).rest

\* C29 (as stated, the array clause): after a failing array element the
\* cursor sits after the elements already decoded.
C29_AfterDecodedElements ==
    (mode = "decode" /\ pc = "decoded" /\ ~deres.ok /\ ty.k \in {"vec", "data", "tuple"}
        /\ FirstHeader.ok /\ FirstHeader.h.t = "Array" /\ FirstHeader.h.n >= 0
        /\ ~DecodeElems(ty, 1, Wanted(ty, FirstHeader.h.n), << >>, FirstHeader.rest).ok)
    => cursor = ElementBegin(FirstHeader.h.n,
            DecodeElems(ty, 1, Wanted(ty, FirstHeader.h.n), << >>, FirstHeader.rest))

\* the cursor after a failing array element: behind the last leaf parse of
\* that element that succeeded, which is where the element began only when
\* its own first header read failed
FailedElementCursor(begin, r) ==
    /\ cursor = r.rest
    /\ cursor = begin <=> ~read_header(begin).ok

\* C29: a failed cursor decode does not roll the cursor back: it is left
\* behind the last leaf parse that succeeded (header line or bulk payload).
\* It is unchanged only when the very first header read failed; after a
\* truncated bulk payload it sits right behind the '$' header; after a
\* failing array element it sits behind the elements already decoded and
\* behind those leaf parses of the failing element that succeeded; after a
\* top-level Error line reported as Redis(message) it sits right behind
\* that line.
C29_NoRollback ==
    (mode = "decode" /\ pc = "decoded" /\ ~deres.ok) =>
        /\ cursor \in LeafStops(input, -1)
        /\ cursor = input <=> ~FirstHeader.ok
        /\ (FirstHeader.ok /\ FirstHeader.h.t = "BulkString" /\ FirstHeader.h.n >= 0
                /\ FirstHeader.h.n <= MAX_BULK_LENGTH
                /\ ~read_exact(FirstHeader.h.n, FirstHeader.rest).ok)
            => cursor = FirstHeader.rest
        /\ deres.e.k = "Redis" =>
            (FirstHeader.ok /\ FirstHeader.h.t = "Error" /\ deres.e = Redis(FirstHeader.h.p)
                /\ cursor = FirstHeader.rest)
        /\ (ty.k \in {"vec", "data", "tuple"} /\ FirstHeader.ok /\ FirstHeader.h.t = "Array"
                /\ FirstHeader.h.n >= 0
                /\ ~DecodeElems(ty, 1, Wanted(ty, FirstHeader.h.n), << >>, FirstHeader.rest).ok)
            => FailedElementCursor(
                    ElementBegin(FirstHeader.h.n,
                        DecodeElems(ty, 1, Wanted(ty, FirstHeader.h.n), << >>, FirstHeader.rest)),
                    DecodeElems(ty, 1, Wanted(ty, FirstHeader.h.n), << >>, FirstHeader.rest))

C29_Witness ==
    /\ mode = "decode" /\ pc = "decoded" /\ ty = TVec(TInt)
    /\ input = <<"*", "2", CR, LF, ":", "1", CR, LF, "$", "1", CR, LF, "a", CR, LF>>
    /\ ~deres.ok /\ deres.e = Custom /\ cursor = NoBytes


-----------------------------------------------------------------------------
(* Properties of the Command caller (SpecCommand) *)

\* how many elements the argument `v` of a command stands for; `named` says
\* whether it is a keyed field
RECURSIVE ArgumentElements(_, _)
ArgumentElements(named, v) ==
    CASE v.k = "bool" -> v.n
      [] v.k \in {"int", "str", "bytes", "unit", "unit_struct", "unit_variant"} -> 1
      [] v.k = "none" -> 0
      [] v.k = "some" -> IF v.c[1].k \in {"int", "str", "bytes", "newtype_variant"} THEN 2 ELSE 1
      [] v.k = "newtype" -> ArgumentElements(named, v.c[1])
      [] v.k = "newtype_variant" -> 2
      [] OTHER -> Len(v.c)

RECURSIVE CommandElements(_, _)
CommandElements(fs, i) ==
    IF i > Len(fs) THEN 0
    ELSE (IF fs[i].k = "field" THEN ArgumentElements(TRUE, fs[i].c[1])
          ELSE ArgumentElements(FALSE, fs[i]))
         + CommandElements(fs, i + 1)

\* the bulk strings of the elements, one after the other
RECURSIVE BulkStrings(_, _)
BulkStrings(items, i) ==
    IF i > Len(items) THEN NoBytes
    ELSE serialize_bulk_string(NoBytes, items[i]).out \o BulkStrings(items, i + 1)

CommandRan == mode = "command" /\ pc = "serialized"

\* C26: when the length pass of the Command adapter accepts a command, the
\* real pass is handed the same elements in the same order, the length the
\* first pass returned is the number of elements the real pass emits (the
\* command's name, one per primitive argument and per true flag, none for a
\* false flag or an absent option, name and value for a present keyed option,
\* every item of a list or map), and the real pass never fails with
\* BadSeqLength: into a byte sink it succeeds and writes the array header of
\* that length and the elements as bulk strings; into a text sink it stops
\* only at an element the sink cannot hold. When the length pass rejects the
\* command, the call fails with a custom error and writes nothing.
C26_TwoPass ==
    CommandRan =>
        IF dryrun.ok THEN
            /\ dryrun.length = Len(dryrun.items)
            /\ dryrun.length = 1 + CommandElements(val.c, 1)
            /\ realrun.e.k # "BadSeqLength"
            /\ StartsWith(dryrun.items, realrun.items)
            /\ realrun.ok => /\ realrun.items = dryrun.items
                             /\ realrun.remaining = 0
            /\ ~realrun.ok => /\ sink = "String"
                              /\ realrun.e.k = "Utf8Encode"
                              /\ ~from_utf8(dryrun.items[Len(realrun.items) + 1])
            /\ StartsWith(out, before \o serialize_array_header(NoBytes, dryrun.length).out
                                \o BulkStrings(realrun.items, 1))
            /\ realrun.ok => out = before \o serialize_array_header(NoBytes, dryrun.length).out
                                       \o BulkStrings(realrun.items, 1)
        ELSE /\ ~serres.ok /\ serres.e.k = "Custom"
             /\ out = before

\* a struct command with a keyed present option and a keyed list went
\* through both passes: name, key and value, two items
C26_Witness ==
    /\ CommandRan /\ dryrun.ok /\ realrun.ok
    /\ val.k = "struct" /\ Len(val.c) = 2
    /\ val.c[1].c[1] = VSome(VInt(6))
    /\ val.c[2].c[1].k = "seq" /\ Len(val.c[2].c[1].c) = 2
    /\ dryrun.length = 5
    /\ realrun.items = <<<<"S">>, <<"G">>, <<"6">>, <<"a">>, <<"1">>>>

====
